---------------------------- MODULE Spec2Model ----------------------------
(***************************************************************************)
(* Resilience-and-dispatch core of Data-Lab: the circuit breaker and the   *)
(* retry of apps/connectors/resilience.py and the token bucket of          *)
(* apps/mcp/ratelimit.py.                                                  *)
(*                                                                         *)
(* Three specifications share the module, one per component:               *)
(*   SpecBreaker  calls through with_circuit_breaker, interleaved at the   *)
(*                await of the wrapped function;                           *)
(*   SpecRetry    one run of retry_with_backoff over a function whose      *)
(*                outcome on each invocation is fixed beforehand;          *)
(*   SpecLimiter  check_rate_limit / reset on the global RateLimiter.      *)
(* Each leaves the variables of the other components untouched.            *)
(***************************************************************************)
EXTENDS Integers, Sequences, FiniteSets, TLC

VARIABLES
    \* ---- circuit breaker (resilience.py)
    config,      \* CircuitBreakerRegistry.config
    breakers,    \* CircuitBreakerRegistry._breakers: key -> breaker | NoBreaker
    clock,       \* time.time() as read by the breaker, in seconds
    pc,          \* per call slot: Idle, or the key whose wrapped function it awaits
    history,     \* history: per key, the outcomes recorded ("S" / "F") and the
                 \*   entries into HALF_OPEN ("H"), oldest first
    probe,       \* history: per key, the call that made OPEN -> HALF_OPEN and is in flight
    last,        \* history: the operation that produced the current state
    \* ---- retry_with_backoff (resilience.py)
    retries,     \* argument retries
    base_ms,     \* argument base_ms
    max_ms,      \* argument max_ms
    plan,        \* func: its outcome on the i-th invocation ("ok", "transient", "fatal")
    retry_pc,    \* "calling", "sleeping", "returned", "raised"
    attempt,     \* the loop variable
    call_count,  \* invocations of func so far
    sleeps,      \* the delays slept so far, in ms
    result,      \* what the run returned or raised: <<kind, invocation>>
    \* ---- rate limiter (ratelimit.py)
    buckets,     \* RateLimiter._buckets: key -> bucket | NoBucket
    now,         \* time.time() as read by the limiter, in seconds
    checked,     \* history: per key, the checks made on its bucket since it was created
    last_check,  \* history: the limiter operation that produced the current state
    watch,       \* history: the checks admitted since an instant picked to observe from
    \* ---- callers of check_rate_limit running in threads (ratelimit.py)
    lock,        \* RateLimiter._lock: the thread that holds it, or NoThread
    threads,     \* per thread: its position in check_rate_limit
    limit_arg,   \* argument limit_per_min of the calls (one tool, one limit)
    tally,       \* history: calls issued, calls admitted, buckets created and the
                 \*   instant of the first creation
    \* ---- MCPService._apply_field_masks (mcp/service.py)
    data_in,         \* argument data
    field_masks_in,  \* argument field_masks
    masked_out,      \* the value returned or the exception raised, once called
    \* ---- MCPService.invoke_tool (mcp/service.py)
    tool,        \* the row get_tool finds for (org_id, tool_id), or NoTool
    policies,    \* the rows of the policies table, in the order a select returns them
    membership,  \* the row _get_user_membership finds for the caller, or Absent
    inv,         \* the invocation in progress: its position, its locals, and as
                 \*   history the steps it performed and the buckets it found
    response,    \* what the last invocation returned or raised to its caller
    uuids,       \* the number of uuid4() values drawn so far
    seen,        \* history: the trace ids of the responses before the current one
    budget,      \* the number of invocations a run makes
    \* ---- MetricsRegistry and the health summary (connectors/metrics.py, service.py)
    metrics,     \* MetricsRegistry._metrics: key -> DataSourceMetrics | NoMetrics
    log,         \* history: per key, the success flag of every call recorded, oldest first
    arrivals,    \* history: per key, the latency of every call recorded, oldest first
    health,      \* history: the last operation on the registry and what it returned
    \* ---- the handlers of DataSourceService and their connectors (connectors/service.py)
    handlers,    \* per call slot, the handler in flight and its position
    conns        \* history: every connector constructed, with its closes and uses

breakerVars == <<config, breakers, clock, pc, history, probe, last>>
retryVars   == <<retries, base_ms, max_ms, plan, retry_pc, attempt, call_count,
                 sleeps, result>>

limiterVars == <<buckets, now, checked, last_check, watch>>

threadVars  == <<lock, threads, limit_arg, tally>>

maskVars    == <<data_in, field_masks_in, masked_out>>

invokeVars  == <<tool, policies, membership, inv, response, uuids, seen, budget>>

metricsVars == <<metrics, log, arrivals, health>>
handlerVars == <<handlers, conns>>

vars == <<breakerVars, retryVars, limiterVars, threadVars, maskVars, invokeVars,
          metricsVars, handlerVars>>

-----------------------------------------------------------------------------
(* Bounds of the model                                                     *)

MaxThreshold == 2     \* failure_threshold and success_threshold range over 1..MaxThreshold
MaxCooldown  == 2     \* timeout_seconds ranges over 1..MaxCooldown
MaxClock     == 4     \* the clock runs from 1 to MaxClock
MaxOutcomes  == 4     \* calls issued per key
NumCalls     == 2     \* calls in flight at once
MaxRetries   == 3     \* retries ranges over 0..MaxRetries
MaxSeconds   == 7     \* the limiter's clock runs from 0 to MaxSeconds

Keys  == {"ds1"}         \* (org_id, ds_id) pairs in use
Calls == 1..NumCalls

Min(a, b) == IF a <= b THEN a ELSE b

-----------------------------------------------------------------------------
(* resilience.py: circuit breaker                                          *)

CLOSED    == "CLOSED"
OPEN      == "OPEN"
HALF_OPEN == "HALF_OPEN"

None      == -1          \* last_failure_time: float | None = None
NoBreaker == [state |-> "ABSENT"]
Idle      == "idle"

\* Python truthiness of a float | None
Truthy(x) == x # None /\ x # 0

CircuitBreakerConfig(ft, st, to) ==
    [failure_threshold |-> ft, success_threshold |-> st, timeout_seconds |-> to]

\* CircuitBreakerState.__init__
CircuitBreakerState ==
    [state |-> CLOSED, failure_count |-> 0, success_count |-> 0,
     last_failure_time |-> None]

\* should_allow_request that rejects on OPEN however long ago the failure was
should_allow_request_never_probes(b, cfg, t) ==
    IF b.state = CLOSED THEN [allow |-> TRUE, breaker |-> b]
    ELSE IF b.state = OPEN THEN [allow |-> FALSE, breaker |-> b]
    ELSE [allow |-> TRUE, breaker |-> b]

\* should_allow_request without the reset of success_count on OPEN -> HALF_OPEN
should_allow_request_stale_count(b, cfg, t) ==
    IF b.state = CLOSED THEN [allow |-> TRUE, breaker |-> b]
    ELSE IF b.state = OPEN THEN
        IF Truthy(b.last_failure_time)
             /\ t - b.last_failure_time >= cfg.timeout_seconds
        THEN [allow |-> TRUE, breaker |-> [b EXCEPT !.state = HALF_OPEN]]
        ELSE [allow |-> FALSE, breaker |-> b]
    ELSE [allow |-> TRUE, breaker |-> b]

\* CircuitBreakerState.should_allow_request: the verdict and the breaker after it
should_allow_request(b, cfg, t) ==
    IF b.state = CLOSED THEN [allow |-> TRUE, breaker |-> b]
    ELSE IF b.state = OPEN THEN
        IF Truthy(b.last_failure_time)
             /\ t - b.last_failure_time >= cfg.timeout_seconds
        THEN [allow |-> TRUE,
              breaker |-> [b EXCEPT !.state = HALF_OPEN, !.success_count = 0]]
        ELSE [allow |-> FALSE, breaker |-> b]
    ELSE [allow |-> TRUE, breaker |-> b]

\* record_success that also closes an OPEN breaker
record_success_closes_open(b, cfg) ==
    IF b.state = HALF_OPEN THEN
        LET n == b.success_count + 1 IN
        IF n >= cfg.success_threshold
        THEN [b EXCEPT !.success_count = n, !.state = CLOSED, !.failure_count = 0]
        ELSE [b EXCEPT !.success_count = n]
    ELSE IF b.state = CLOSED THEN
        IF b.failure_count > 0 THEN [b EXCEPT !.failure_count = 0] ELSE b
    ELSE [b EXCEPT !.state = CLOSED, !.failure_count = 0]

\* record_success that closes from HALF_OPEN with the failure count as it was
record_success_closes_dirty(b, cfg) ==
    IF b.state = HALF_OPEN THEN
        LET n == b.success_count + 1 IN
        IF n >= cfg.success_threshold
        THEN [b EXCEPT !.success_count = n, !.state = CLOSED]
        ELSE [b EXCEPT !.success_count = n]
    ELSE IF b.state = CLOSED THEN
        IF b.failure_count > 0 THEN [b EXCEPT !.failure_count = 0] ELSE b
    ELSE b

\* record_success closing one success late (> for >=)
record_success_late(b, cfg) ==
    IF b.state = HALF_OPEN THEN
        LET n == b.success_count + 1 IN
        IF n > cfg.success_threshold
        THEN [b EXCEPT !.success_count = n, !.state = CLOSED, !.failure_count = 0]
        ELSE [b EXCEPT !.success_count = n]
    ELSE IF b.state = CLOSED THEN
        IF b.failure_count > 0 THEN [b EXCEPT !.failure_count = 0] ELSE b
    ELSE b

\* record_success that leaves the failure count alone while CLOSED
record_success_keeps_failures(b, cfg) ==
    IF b.state = HALF_OPEN THEN
        LET n == b.success_count + 1 IN
        IF n >= cfg.success_threshold
        THEN [b EXCEPT !.success_count = n, !.state = CLOSED, !.failure_count = 0]
        ELSE [b EXCEPT !.success_count = n]
    ELSE b

\* CircuitBreakerState.record_success
record_success(b, cfg) ==
    IF b.state = HALF_OPEN THEN
        LET n == b.success_count + 1 IN
        IF n >= cfg.success_threshold
        THEN [b EXCEPT !.success_count = n, !.state = CLOSED, !.failure_count = 0]
        ELSE [b EXCEPT !.success_count = n]
    ELSE IF b.state = CLOSED THEN
        IF b.failure_count > 0 THEN [b EXCEPT !.failure_count = 0] ELSE b
    ELSE b

\* record_failure opening one failure late (> for >=)
record_failure_late(b, cfg, t) ==
    LET b1 == [b EXCEPT !.last_failure_time = t] IN
    IF b.state = HALF_OPEN THEN
        [b1 EXCEPT !.state = OPEN, !.failure_count = cfg.failure_threshold]
    ELSE IF b.state = CLOSED THEN
        LET n == b.failure_count + 1 IN
        IF n > cfg.failure_threshold
        THEN [b1 EXCEPT !.failure_count = n, !.state = OPEN]
        ELSE [b1 EXCEPT !.failure_count = n]
    ELSE b1

\* record_failure that reopens from HALF_OPEN only when no success was counted yet
record_failure_tolerant(b, cfg, t) ==
    LET b1 == [b EXCEPT !.last_failure_time = t] IN
    IF b.state = HALF_OPEN THEN
        IF b.success_count = 0
        THEN [b1 EXCEPT !.state = OPEN, !.failure_count = cfg.failure_threshold]
        ELSE b1
    ELSE IF b.state = CLOSED THEN
        LET n == b.failure_count + 1 IN
        IF n >= cfg.failure_threshold
        THEN [b1 EXCEPT !.failure_count = n, !.state = OPEN]
        ELSE [b1 EXCEPT !.failure_count = n]
    ELSE b1

\* record_failure counting the failure of a call that ends while the circuit is OPEN
record_failure_counts_open(b, cfg, t) ==
    LET b1 == [b EXCEPT !.last_failure_time = t] IN
    IF b.state = HALF_OPEN THEN
        [b1 EXCEPT !.state = OPEN, !.failure_count = cfg.failure_threshold]
    ELSE IF b.state = CLOSED THEN
        LET n == b.failure_count + 1 IN
        IF n >= cfg.failure_threshold
        THEN [b1 EXCEPT !.failure_count = n, !.state = OPEN]
        ELSE [b1 EXCEPT !.failure_count = n]
    ELSE [b1 EXCEPT !.failure_count = @ + 1]

\* CircuitBreakerState.record_failure
record_failure(b, cfg, t) ==
    LET b1 == [b EXCEPT !.last_failure_time = t] IN
    IF b.state = HALF_OPEN THEN
        [b1 EXCEPT !.state = OPEN, !.failure_count = cfg.failure_threshold]
    ELSE IF b.state = CLOSED THEN
        LET n == b.failure_count + 1 IN
        IF n >= cfg.failure_threshold
        THEN [b1 EXCEPT !.failure_count = n, !.state = OPEN]
        ELSE [b1 EXCEPT !.failure_count = n]
    ELSE b1

\* CircuitBreakerRegistry.get_breaker: the registry after the lookup
get_breaker(reg, key) ==
    IF reg[key] = NoBreaker THEN [reg EXCEPT ![key] = CircuitBreakerState] ELSE reg

NoEvent == [op |-> "none"]

\* no instant picked to observe the limiter from
NoWatch == [on |-> FALSE, since |-> 0, admitted |-> 0]

\* what a step of the breaker leaves alone
BreakerFrame == UNCHANGED <<retryVars, limiterVars, threadVars, maskVars, invokeVars,
                            metricsVars, handlerVars>>

\* the breaker while another component is exercised
BreakerUnused ==
    /\ config = CircuitBreakerConfig(5, 2, 30)
    /\ breakers = [k \in Keys |-> NoBreaker]
    /\ clock = 1
    /\ pc = [c \in Calls |-> Idle]
    /\ history = [k \in Keys |-> <<>>]
    /\ probe = [k \in Keys |-> 0]
    /\ last = NoEvent

\* the limiter while another component is exercised
LimiterUnused ==
    /\ buckets = <<>>
    /\ now = 0
    /\ checked = <<>>
    /\ last_check = NoEvent
    /\ watch = NoWatch

\* retry_with_backoff while another component is exercised
RetryUnused ==
    /\ retries = 2 /\ base_ms = 250 /\ max_ms = 2000
    /\ plan = <<>>
    /\ retry_pc = "returned"
    /\ attempt = 0
    /\ call_count = 0
    /\ sleeps = <<>>
    /\ result = <<>>

\* the threaded callers of the limiter while another component is exercised
ThreadsUnused ==
    /\ lock = 0
    /\ threads = <<>>
    /\ limit_arg = 60
    /\ tally = <<>>

\* _apply_field_masks while another component is exercised
MaskUnused ==
    /\ data_in = <<>>
    /\ field_masks_in = <<>>
    /\ masked_out = <<>>

\* invoke_tool while another component is exercised
InvokeUnused ==
    /\ tool = <<>>
    /\ policies = <<>>
    /\ membership = <<>>
    /\ inv = <<>>
    /\ response = <<>>
    /\ uuids = 0
    /\ seen = {}
    /\ budget = 0

\* no handler of the data source service in flight, no connector constructed
HandlersUnused ==
    /\ handlers = <<>>
    /\ conns = <<>>

\* the metrics registry while another component is exercised
MetricsUnused ==
    /\ metrics = <<>>
    /\ log = <<>>
    /\ arrivals = <<>>
    /\ health = <<>>

\* every component but the one a specification exercises
OthersUnused ==
    /\ ThreadsUnused
    /\ MaskUnused
    /\ InvokeUnused
    /\ MetricsUnused
    /\ HandlersUnused

InFlight(k) == {c \in Calls : pc[c] = k}

\* the outcomes recorded on a key so far
Recorded(h) == Cardinality({i \in 1..Len(h) : h[i] # "H"})

\* the registry and the callers of a process that made no call yet, on the keys ks
BreakerState(ks) ==
    /\ breakers = [k \in ks |-> NoBreaker]
    /\ clock = 1
    /\ pc = [c \in Calls |-> Idle]
    /\ history = [k \in ks |-> <<>>]
    /\ probe = [k \in ks |-> 0]
    /\ last = NoEvent

InitBreaker ==
    /\ config \in {CircuitBreakerConfig(ft, st, to) :
                      ft \in 1..MaxThreshold, st \in 1..MaxThreshold,
                      to \in 1..MaxCooldown}
    /\ BreakerState(Keys)
    /\ RetryUnused
    /\ LimiterUnused
    /\ OthersUnused

\* with_circuit_breaker up to the await of the wrapped function: the lookup, the
\* admission check, and either CircuitBreakerOpen or the start of func
CallStart(c, k) ==
    /\ pc[c] = Idle
    /\ Recorded(history[k]) + Cardinality(InFlight(k)) < MaxOutcomes
    /\ LET reg == get_breaker(breakers, k)
           r   == should_allow_request(reg[k], config, clock)
       IN /\ breakers' = [reg EXCEPT ![k] = r.breaker]
          /\ pc' = IF r.allow THEN [pc EXCEPT ![c] = k] ELSE pc
          /\ probe' = IF reg[k].state = OPEN /\ r.breaker.state = HALF_OPEN
                      THEN [probe EXCEPT ![k] = c] ELSE probe
          /\ history' = IF reg[k].state = OPEN /\ r.breaker.state = HALF_OPEN
                        THEN [history EXCEPT ![k] = Append(@, "H")] ELSE history
          /\ last' = [op |-> IF r.allow THEN "admit" ELSE "reject",
                      key |-> k, call |-> c, pre |-> reg[k]]
    /\ UNCHANGED <<config, clock>>
    /\ BreakerFrame

\* with_circuit_breaker after func returned: record_success, return result
CallReturn(c) ==
    /\ pc[c] \in DOMAIN breakers
    /\ LET k == pc[c] IN
          /\ breakers' = [breakers EXCEPT ![k] = record_success(@, config)]
          /\ history' = [history EXCEPT ![k] = Append(@, "S")]
          /\ probe' = IF probe[k] = c THEN [probe EXCEPT ![k] = 0] ELSE probe
          /\ last' = [op |-> "success", key |-> k, call |-> c, pre |-> breakers[k]]
    /\ pc' = [pc EXCEPT ![c] = Idle]
    /\ UNCHANGED <<config, clock>>
    /\ BreakerFrame

\* with_circuit_breaker after func raised: record_failure, re-raise
CallRaise(c) ==
    /\ pc[c] \in DOMAIN breakers
    /\ LET k == pc[c] IN
          /\ breakers' = [breakers EXCEPT ![k] = record_failure(@, config, clock)]
          /\ history' = [history EXCEPT ![k] = Append(@, "F")]
          /\ probe' = IF probe[k] = c THEN [probe EXCEPT ![k] = 0] ELSE probe
          /\ last' = [op |-> "failure", key |-> k, call |-> c, pre |-> breakers[k]]
    /\ pc' = [pc EXCEPT ![c] = Idle]
    /\ UNCHANGED <<config, clock>>
    /\ BreakerFrame

\* time.time() advances
Tick ==
    /\ clock < MaxClock
    /\ clock' = clock + 1
    /\ last' = NoEvent
    /\ UNCHANGED <<config, breakers, pc, history, probe>>
    /\ BreakerFrame

NextBreaker ==
    \/ \E c \in Calls, k \in DOMAIN breakers : CallStart(c, k)
    \/ \E c \in Calls : CallReturn(c)
    \/ \E c \in Calls : CallRaise(c)
    \/ Tick

SpecBreaker == InitBreaker /\ [][NextBreaker]_vars

-----------------------------------------------------------------------------
(* Properties of the circuit breaker                                       *)

\* the key the last operation acted on holds a breaker (it was looked up)
LastOn(k, ops) == last.op \in ops /\ last.key = k

AllFailures(h) == \A i \in 1..Len(h) : h[i] = "F"

\* number of "F" at the end of h
RECURSIVE TrailingFailures(_)
TrailingFailures(h) ==
    IF h = <<>> \/ h[Len(h)] # "F" THEN 0
    ELSE 1 + TrailingFailures(SubSeq(h, 1, Len(h) - 1))

\* number of "S" at the end of h
RECURSIVE TrailingSuccesses(_)
TrailingSuccesses(h) ==
    IF h = <<>> \/ h[Len(h)] # "S" THEN 0
    ELSE 1 + TrailingSuccesses(SubSeq(h, 1, Len(h) - 1))

\* h holds n failures in a row with no success between them
HasFailureRun(h, n) ==
    \E i \in 1..Len(h) : i + n - 1 <= Len(h) /\ \A j \in i..(i + n - 1) : h[j] = "F"

FailuresIn(h) == Cardinality({i \in 1..Len(h) : h[i] = "F"})

\* C1: from a fresh CLOSED breaker, the failure that completes failure_threshold
\* consecutive failed calls leaves the breaker OPEN (and fewer leave it CLOSED);
\* a call checked while the breaker is OPEN and the cool-down has not elapsed
\* is rejected, its wrapped function is not started and the breaker is unchanged.
C1_OpensAtThresholdAndRejects ==
    \A k \in DOMAIN breakers :
        /\ (LastOn(k, {"failure"}) /\ AllFailures(history[k])) =>
              IF Len(history[k]) >= config.failure_threshold
              THEN breakers[k].state = OPEN
              ELSE breakers[k].state = CLOSED
        /\ (LastOn(k, {"admit", "reject"}) /\ last.pre.state = OPEN
              /\ clock - last.pre.last_failure_time < config.timeout_seconds) =>
              /\ last.op = "reject"
              /\ pc[last.call] = Idle
              /\ breakers[k] = last.pre

C1_Witness ==
    \E k \in DOMAIN breakers :
        /\ LastOn(k, {"reject"})
        /\ config.failure_threshold >= 2
        /\ history[k] = [i \in 1..config.failure_threshold |-> "F"]

\* C2 as stated: an admission check on an OPEN breaker whose cool-down has
\* elapsed admits the call and leaves the breaker HALF_OPEN with success count 0,
\* and until that call's outcome is recorded no other call on the key is admitted.
C2_SingleProbe ==
    \A k \in DOMAIN breakers :
        /\ (LastOn(k, {"admit", "reject"}) /\ last.pre.state = OPEN
              /\ clock - last.pre.last_failure_time >= config.timeout_seconds) =>
              /\ last.op = "admit"
              /\ breakers[k].state = HALF_OPEN
              /\ breakers[k].success_count = 0
        /\ LastOn(k, {"admit"}) => probe[k] \in {0, last.call}

\* C2 amended: the check on an OPEN breaker whose cool-down has elapsed admits
\* the call and leaves the breaker HALF_OPEN with success count 0; every check
\* made while the breaker is HALF_OPEN admits its call too and changes nothing,
\* whether or not the first admitted call is still in flight.
C2_HalfOpenAdmitsAll ==
    \A k \in DOMAIN breakers :
        /\ (LastOn(k, {"admit", "reject"}) /\ last.pre.state = OPEN
              /\ clock - last.pre.last_failure_time >= config.timeout_seconds) =>
              /\ last.op = "admit"
              /\ pc[last.call] = k
              /\ breakers[k].state = HALF_OPEN
              /\ breakers[k].success_count = 0
        /\ (LastOn(k, {"admit", "reject"}) /\ last.pre.state = HALF_OPEN) =>
              /\ last.op = "admit"
              /\ pc[last.call] = k
              /\ breakers[k] = last.pre

\* a second call admitted while the call that made the breaker HALF_OPEN is in flight
C2_Witness ==
    \E k \in DOMAIN breakers :
        /\ LastOn(k, {"admit"})
        /\ last.pre.state = HALF_OPEN
        /\ probe[k] \notin {0, last.call}
        /\ pc[probe[k]] = k

\* C3: a failure recorded in HALF_OPEN leaves the breaker OPEN with the failure
\* count at failure_threshold, whatever the success count was.
C3_HalfOpenFailureReopens ==
    \A k \in DOMAIN breakers :
        (LastOn(k, {"failure"}) /\ last.pre.state = HALF_OPEN) =>
            /\ breakers[k].state = OPEN
            /\ breakers[k].failure_count = config.failure_threshold
            /\ breakers[k].last_failure_time = clock

C3_Witness ==
    \E k \in DOMAIN breakers :
        /\ LastOn(k, {"failure"})
        /\ last.pre.state = HALF_OPEN
        /\ last.pre.success_count >= 1
        /\ last.pre.success_count = config.success_threshold - 1
        /\ breakers[k].state = OPEN

\* C4: a success recorded in HALF_OPEN closes the breaker, with failure count 0,
\* exactly when it is the success_threshold-th success recorded since the breaker
\* became HALF_OPEN; after fewer the breaker is still HALF_OPEN.
C4_HalfOpenClosesAtThreshold ==
    \A k \in DOMAIN breakers :
        (LastOn(k, {"success"}) /\ last.pre.state = HALF_OPEN) =>
            IF TrailingSuccesses(history[k]) >= config.success_threshold
            THEN breakers[k].state = CLOSED /\ breakers[k].failure_count = 0
            ELSE breakers[k].state = HALF_OPEN

C4_Witness ==
    \E k \in DOMAIN breakers :
        /\ LastOn(k, {"success"})
        /\ last.pre.state = HALF_OPEN
        /\ config.success_threshold >= 2
        /\ TrailingSuccesses(history[k]) = config.success_threshold
        /\ breakers[k].state = CLOSED

\* C5: a success recorded in CLOSED leaves the failure count 0; as long as the
\* outcomes recorded on a key hold no run of failure_threshold failures, the
\* breaker is CLOSED and its failure count is the length of the current run.
C5_OnlyConsecutiveFailuresOpen ==
    \A k \in DOMAIN breakers :
        /\ (LastOn(k, {"success"}) /\ last.pre.state = CLOSED) =>
              breakers[k].state = CLOSED /\ breakers[k].failure_count = 0
        /\ (breakers[k] # NoBreaker
              /\ ~HasFailureRun(history[k], config.failure_threshold)) =>
              /\ breakers[k].state = CLOSED
              /\ breakers[k].failure_count = TrailingFailures(history[k])

\* more failures in total than the threshold, none of them consecutive enough
C5_Witness ==
    \E k \in DOMAIN breakers :
        /\ breakers[k] # NoBreaker
        /\ ~HasFailureRun(history[k], config.failure_threshold)
        /\ FailuresIn(history[k]) >= config.failure_threshold
        /\ breakers[k].state = CLOSED

-----------------------------------------------------------------------------
(* resilience.py: retry_with_backoff                                       *)

BaseChoices == {10, 250}      \* base_ms: the tests' value and the default
MaxChoices  == {50, 2000}     \* max_ms: the tests' value and the default
Outcomes    == {"ok", "transient", "fatal"}

RECURSIVE Pow2(_)
Pow2(n) == IF n = 0 THEN 1 ELSE 2 * Pow2(n - 1)

\* every exception is taken for a transient one
is_transient_any(outcome) == outcome # "ok"

\* except (asyncio.TimeoutError, OSError, ConnectionError)
is_transient(outcome) == outcome = "transient"

\* one retry fewer than the budget
has_retry_left_short(a, r) == a + 1 < r

\* if attempt < retries
has_retry_left(a, r) == a < r

\* the delay without the cap max_ms
delay_ms_uncapped(a, base, max) == base * Pow2(a)

\* delay_ms = min(base_ms * (2 ** attempt), max_ms)
delay_ms(a, base, max) == Min(base * Pow2(a), max)

\* what a step of retry_with_backoff leaves alone
RetryFrame == UNCHANGED <<breakerVars, limiterVars, threadVars, maskVars, invokeVars,
                          metricsVars, handlerVars>>

InitRetry ==
    /\ retries \in 0..MaxRetries
    /\ base_ms \in BaseChoices
    /\ max_ms \in MaxChoices
    /\ plan \in [1..(MaxRetries + 1) -> Outcomes]
    /\ retry_pc = "calling"
    /\ attempt = 0
    /\ call_count = 0
    /\ sleeps = <<>>
    /\ result = <<>>
    /\ BreakerUnused
    /\ LimiterUnused
    /\ OthersUnused

\* one pass of the loop body: await func, then return, sleep or raise
RetryInvoke ==
    /\ retry_pc = "calling"
    /\ LET n == call_count + 1
           outcome == plan[n]
       IN /\ call_count' = n
          /\ IF outcome = "ok"
             THEN /\ retry_pc' = "returned"
                  /\ result' = <<"ok", n>>
                  /\ sleeps' = sleeps
             ELSE IF is_transient(outcome)
             THEN IF has_retry_left(attempt, retries)
                  THEN /\ retry_pc' = "sleeping"
                       /\ sleeps' = Append(sleeps, delay_ms(attempt, base_ms, max_ms))
                       /\ result' = result
                  ELSE /\ retry_pc' = "raised"
                       /\ result' = <<outcome, n>>
                       /\ sleeps' = sleeps
             ELSE /\ retry_pc' = "raised"
                  /\ result' = <<outcome, n>>
                  /\ sleeps' = sleeps
    /\ UNCHANGED <<retries, base_ms, max_ms, plan, attempt>>
    /\ RetryFrame

\* asyncio.sleep returns: the loop goes to its next attempt; after the last
\* one the function raises last_exception
RetryWake ==
    /\ retry_pc = "sleeping"
    /\ IF attempt + 1 < retries + 1
       THEN /\ attempt' = attempt + 1
            /\ retry_pc' = "calling"
            /\ result' = result
       ELSE /\ attempt' = attempt
            /\ retry_pc' = "raised"
            /\ result' = <<plan[call_count], call_count>>
    /\ UNCHANGED <<retries, base_ms, max_ms, plan, call_count, sleeps>>
    /\ RetryFrame

NextRetry ==
    \/ RetryInvoke
    \/ RetryWake

\* the event loop resumes the coroutine: func completes and sleeps end
SpecRetry == InitRetry /\ [][NextRetry]_vars /\ WF_vars(NextRetry)

-----------------------------------------------------------------------------
(* Properties of retry_with_backoff                                        *)

\* the number of transient failures func makes before its first other outcome
RECURSIVE LeadingTransients(_)
LeadingTransients(p) ==
    IF p = <<>> \/ p[1] # "transient" THEN 0 ELSE 1 + LeadingTransients(Tail(p))

RetryDone == retry_pc \in {"returned", "raised"}

\* func's outcome after its leading transient failures, reached within the budget
OutcomeAfterTransients(kind) ==
    LET k == LeadingTransients(plan) IN
    k <= retries /\ k < Len(plan) /\ plan[k + 1] = kind

\* C6: func failing transiently k <= retries times and then succeeding: the run
\* returns the result of invocation k + 1 and func is invoked k + 1 times, never more.
C6_EventualSuccess ==
    OutcomeAfterTransients("ok") =>
        LET k == LeadingTransients(plan) IN
        /\ call_count <= k + 1
        /\ RetryDone => /\ retry_pc = "returned"
                        /\ result = <<"ok", k + 1>>
                        /\ call_count = k + 1

C6_Witness ==
    /\ retry_pc = "returned"
    /\ retries = 3
    /\ LeadingTransients(plan) = 2
    /\ call_count = 3

\* C7: a non-transient error ends the run at the invocation that raised it: func
\* is never invoked again, the error raised is that one, no sleep follows it; when
\* it is the first outcome func was invoked once and nothing was slept.
C7_NonTransientNotRetried ==
    OutcomeAfterTransients("fatal") =>
        LET k == LeadingTransients(plan) IN
        /\ call_count <= k + 1
        /\ Len(sleeps) <= k
        /\ RetryDone => /\ retry_pc = "raised"
                        /\ result = <<"fatal", k + 1>>
                        /\ call_count = k + 1
                        /\ Len(sleeps) = k

C7_Witness ==
    /\ retry_pc = "raised"
    /\ retries >= 2
    /\ plan[1] = "fatal"
    /\ call_count = 1
    /\ sleeps = <<>>

AllTransient == LeadingTransients(plan) > retries

\* C8: func failing transiently on every attempt: the run ends; by then func was
\* invoked retries + 1 times, the delays slept are min(base_ms * 2^i, max_ms) for
\* i = 0..retries-1 and no other, and the error raised is the last invocation's.
C8_ExhaustionTerminates ==
    <>[](AllTransient =>
            /\ retry_pc = "raised"
            /\ call_count = retries + 1
            /\ sleeps = [i \in 1..retries |-> Min(base_ms * Pow2(i - 1), max_ms)]
            /\ result = <<"transient", retries + 1>>)

\* exhausted after three sleeps, the last of them cut to max_ms
C8_Witness ==
    /\ AllTransient
    /\ retry_pc = "raised"
    /\ retries = 3
    /\ Len(sleeps) = 3
    /\ sleeps[3] = max_ms
    /\ base_ms * Pow2(2) > max_ms

-----------------------------------------------------------------------------
(* ratelimit.py: token bucket                                              *)
(*                                                                         *)
(* tokens and refill_rate are fractions with denominator 60 (the refill of *)
(* a whole number of seconds at limit_per_min / 60.0 tokens per second):   *)
(* the model holds them as numerators, a count of sixtieths of a token.    *)

TokenScale == 60

LimitKeys == {"tool1"}        \* (org_id, tool_id) pairs in use
Limits    == {1, 10, 60}      \* limit_per_min: the least allowed (ge=1), the tests'
                              \*   value and the default of invoke_tool

NoBucket == [capacity |-> 0]

\* the dataclass TokenBucket
TokenBucket(capacity, tokens, last_refill, refill_rate) ==
    [capacity |-> capacity, tokens |-> tokens, last_refill |-> last_refill,
     refill_rate |-> refill_rate]

\* consume admitting without taking the token
consume_free(b, n, t) ==
    LET time_passed == t - b.last_refill
        filled == Min(b.capacity * TokenScale, b.tokens + time_passed * b.refill_rate)
        b1 == [b EXCEPT !.tokens = filled, !.last_refill = t]
    IN IF filled >= n * TokenScale
       THEN [ok |-> TRUE, bucket |-> b1]
       ELSE [ok |-> FALSE, bucket |-> b1]

\* consume taking a token only when more than one is left (> for >=)
consume_strict(b, n, t) ==
    LET time_passed == t - b.last_refill
        filled == Min(b.capacity * TokenScale, b.tokens + time_passed * b.refill_rate)
        b1 == [b EXCEPT !.tokens = filled, !.last_refill = t]
    IN IF filled > n * TokenScale
       THEN [ok |-> TRUE, bucket |-> [b1 EXCEPT !.tokens = filled - n * TokenScale]]
       ELSE [ok |-> FALSE, bucket |-> b1]

\* consume refilling without the cap at capacity
consume_uncapped(b, n, t) ==
    LET time_passed == t - b.last_refill
        filled == b.tokens + time_passed * b.refill_rate
        b1 == [b EXCEPT !.tokens = filled, !.last_refill = t]
    IN IF filled >= n * TokenScale
       THEN [ok |-> TRUE, bucket |-> [b1 EXCEPT !.tokens = filled - n * TokenScale]]
       ELSE [ok |-> FALSE, bucket |-> b1]

\* TokenBucket.consume at time t: the verdict and the bucket after it
consume(b, n, t) ==
    LET time_passed == t - b.last_refill
        filled == Min(b.capacity * TokenScale, b.tokens + time_passed * b.refill_rate)
        b1 == [b EXCEPT !.tokens = filled, !.last_refill = t]
    IN IF filled >= n * TokenScale
       THEN [ok |-> TRUE, bucket |-> [b1 EXCEPT !.tokens = filled - n * TokenScale]]
       ELSE [ok |-> FALSE, bucket |-> b1]

\* check_rate_limit taking capacity and refill rate from every call's limit
check_rate_limit_relimits(bs, key, limit_per_min, t) ==
    LET refill_rate == limit_per_min
        bs1 == IF bs[key] = NoBucket
               THEN [bs EXCEPT ![key] = TokenBucket(limit_per_min,
                                                    limit_per_min * TokenScale,
                                                    t, refill_rate)]
               ELSE [bs EXCEPT ![key].capacity = limit_per_min,
                               ![key].refill_rate = refill_rate]
        r == consume(bs1[key], 1, t)
    IN [ok |-> r.ok, buckets |-> [bs1 EXCEPT ![key] = r.bucket], fresh |-> bs1[key]]

\* RateLimiter.check_rate_limit, the body under self._lock: the verdict and
\* the buckets after it
check_rate_limit(bs, key, limit_per_min, t) ==
    LET refill_rate == limit_per_min     \* limit_per_min / 60.0, in sixtieths
        bs1 == IF bs[key] = NoBucket
               THEN [bs EXCEPT ![key] = TokenBucket(limit_per_min,
                                                    limit_per_min * TokenScale,
                                                    t, refill_rate)]
               ELSE bs
        r == consume(bs1[key], 1, t)
    IN [ok |-> r.ok, buckets |-> [bs1 EXCEPT ![key] = r.bucket], fresh |-> bs1[key]]

\* RateLimiter.reset
reset(bs, key) == [bs EXCEPT ![key] = NoBucket]

\* what a step of the limiter leaves alone
LimiterFrame == UNCHANGED <<breakerVars, retryVars, threadVars, maskVars, invokeVars,
                            metricsVars, handlerVars>>

NoChecks == [phase |-> "none", since |-> 0, n |-> 0]

\* The checks made on a bucket, followed through the scenario "a burst at the
\* instant of creation, then silence for 6 seconds, then a second burst":
\*   "burst"   every check so far was made at the instant the bucket was created
\*             (since); n counts them, up to capacity + 1;
\*   "waited"  after a burst of more than capacity checks the next ones came 6
\*             seconds later, all at that instant; n counts these, up to 3;
\*   "other"   any other sequence of checks.
Checked(h, b, t) ==
    IF h.phase = "none" THEN [phase |-> "burst", since |-> t, n |-> 1]
    ELSE IF h.phase = "burst" /\ t = h.since
        THEN [h EXCEPT !.n = Min(h.n + 1, b.capacity + 1)]
    ELSE IF h.phase = "burst" /\ h.n = b.capacity + 1 /\ t = h.since + 6
        THEN [phase |-> "waited", since |-> h.since, n |-> 1]
    ELSE IF h.phase = "waited" /\ t = h.since + 6
        THEN [h EXCEPT !.n = Min(h.n + 1, 3)]
    ELSE [phase |-> "other", since |-> 0, n |-> 0]

InitLimiter ==
    /\ buckets = [k \in LimitKeys |-> NoBucket]
    /\ now = 0
    /\ checked = [k \in LimitKeys |-> NoChecks]
    /\ last_check = NoEvent
    /\ watch = NoWatch
    /\ BreakerUnused
    /\ RetryUnused
    /\ OthersUnused

\* a call of check_rate_limit; self._lock makes its body one step
Check(k, limit_per_min) ==
    /\ LET r == check_rate_limit(buckets, k, limit_per_min, now) IN
          /\ buckets' = r.buckets
          /\ checked' = [checked EXCEPT ![k] = Checked(@, r.fresh, now)]
          /\ last_check' = [op |-> "check", key |-> k, ok |-> r.ok, pre |-> r.fresh,
                             limit |-> limit_per_min]
          /\ watch' = IF watch.on /\ r.ok THEN [watch EXCEPT !.admitted = @ + 1] ELSE watch
    /\ UNCHANGED now
    /\ LimiterFrame

\* a call of reset
Reset(k) ==
    /\ buckets[k] # NoBucket
    /\ buckets' = reset(buckets, k)
    /\ checked' = [checked EXCEPT ![k] = NoChecks]
    /\ last_check' = [op |-> "reset", key |-> k]
    /\ UNCHANGED <<now, watch>>
    /\ LimiterFrame

\* time.time() advances
LimiterTick ==
    /\ now < MaxSeconds
    /\ now' = now + 1
    /\ last_check' = NoEvent
    /\ UNCHANGED <<buckets, checked, watch>>
    /\ LimiterFrame

NextLimiter ==
    \/ \E k \in DOMAIN buckets, l \in Limits : Check(k, l)
    \/ \E k \in DOMAIN buckets : Reset(k)
    \/ LimiterTick

SpecLimiter == InitLimiter /\ [][NextLimiter]_vars

-----------------------------------------------------------------------------
(* Properties of the rate limiter                                          *)

CheckOn(k) == last_check.op = "check" /\ last_check.key = k

\* C9: of the checks made at the instant a bucket is created, the first capacity
\* ones are admitted and every later one is rejected; for capacity 10, of the
\* checks made 6 seconds after such a burst, with none in between, the first is
\* admitted and every later one is rejected.
C9_BurstThenRefill ==
    \A k \in DOMAIN buckets :
        CheckOn(k) =>
            /\ checked[k].phase = "burst" =>
                  (last_check.ok <=> checked[k].n <= buckets[k].capacity)
            /\ (checked[k].phase = "waited" /\ buckets[k].capacity = 10) =>
                  (last_check.ok <=> checked[k].n = 1)

\* the second check made 6 seconds after the burst on a bucket of 10, rejected
C9_Witness ==
    \E k \in DOMAIN buckets :
        /\ CheckOn(k)
        /\ buckets[k].capacity = 10
        /\ checked[k].phase = "waited"
        /\ checked[k].n = 2
        /\ ~last_check.ok

\* C10: the token count of every bucket is within 0 .. capacity.
C10_TokensWithinCapacity ==
    \A k \in DOMAIN buckets :
        buckets[k] # NoBucket =>
            /\ 0 <= buckets[k].tokens
            /\ buckets[k].tokens <= buckets[k].capacity * TokenScale

\* a check on a bucket that had been drawn on, whose refill was cut at capacity:
\* uncut, it would have left more than capacity even after the token taken
C10_Witness ==
    \E k \in DOMAIN buckets :
        /\ CheckOn(k)
        /\ last_check.ok
        /\ last_check.pre.tokens < last_check.pre.capacity * TokenScale
        /\ last_check.pre.tokens + (now - last_check.pre.last_refill)
              * last_check.pre.refill_rate - TokenScale
                 > last_check.pre.capacity * TokenScale
        /\ buckets[k].tokens = (buckets[k].capacity - 1) * TokenScale

-----------------------------------------------------------------------------
(* ratelimit.py: check_rate_limit called from several threads              *)
(*                                                                         *)
(* The body of check_rate_limit is taken apart into the steps a thread     *)
(* switch can separate: the acquisition of self._lock, the membership test *)
(* on _buckets, the creation of the bucket, and in consume the refill, the *)
(* test of the token count and the decrement.                              *)

NumThreads      == 2
MaxThreadChecks == 3     \* calls issued in one run

Threads  == 1..NumThreads
NoThread == 0
TheKey   == "tool1"      \* every thread asks for the same (org_id, tool_id)

\* a lock that never makes a caller wait
can_acquire_always(l) == TRUE

\* threading.Lock: acquire goes through while no thread holds the lock
can_acquire(l) == l = NoThread

\* TokenBucket.consume, the refill: tokens and last_refill brought to time t
refill(b, t) ==
    [b EXCEPT !.tokens = Min(b.capacity * TokenScale,
                             b.tokens + (t - b.last_refill) * b.refill_rate),
              !.last_refill = t]

\* TokenBucket.consume, the test self.tokens >= tokens
has_tokens(b, n) == b.tokens >= n * TokenScale

\* TokenBucket.consume, the decrement self.tokens -= tokens
take(b, n) == [b EXCEPT !.tokens = @ - n * TokenScale]

ThreadFrame == UNCHANGED <<breakerVars, retryVars, checked, last_check, watch, maskVars, invokeVars,
                           metricsVars, handlerVars>>

NoTally == [issued |-> 0, admitted |-> 0, created |-> 0, born |-> 0]

InitThreads ==
    /\ lock = NoThread
    /\ threads = [t \in Threads |-> "idle"]
    /\ limit_arg \in Limits
    /\ tally = NoTally
    /\ buckets = [k \in {TheKey} |-> NoBucket]
    /\ now = 0
    /\ checked = <<>>
    /\ last_check = NoEvent
    /\ watch = NoWatch
    /\ BreakerUnused
    /\ RetryUnused
    /\ MaskUnused
    /\ InvokeUnused
    /\ MetricsUnused
    /\ HandlersUnused

\* a thread calls check_rate_limit: key and refill_rate are computed, the
\* thread arrives at "with self._lock"
Enter(t) ==
    /\ threads[t] = "idle"
    /\ tally.issued < MaxThreadChecks
    /\ threads' = [threads EXCEPT ![t] = "acquire"]
    /\ tally' = [tally EXCEPT !.issued = @ + 1]
    /\ UNCHANGED <<lock, limit_arg, buckets, now>>
    /\ ThreadFrame

\* self._lock.__enter__
Acquire(t) ==
    /\ threads[t] = "acquire"
    /\ can_acquire(lock)
    /\ lock' = t
    /\ threads' = [threads EXCEPT ![t] = "lookup"]
    /\ UNCHANGED <<limit_arg, tally, buckets, now>>
    /\ ThreadFrame

\* if key not in self._buckets
Lookup(t) ==
    /\ threads[t] = "lookup"
    /\ threads' = [threads EXCEPT ![t] =
                      IF buckets[TheKey] = NoBucket THEN "create" ELSE "refill"]
    /\ UNCHANGED <<lock, limit_arg, tally, buckets, now>>
    /\ ThreadFrame

\* self._buckets[key] = TokenBucket(...)
Create(t) ==
    /\ threads[t] = "create"
    /\ buckets' = [buckets EXCEPT ![TheKey] =
                      TokenBucket(limit_arg, limit_arg * TokenScale, now, limit_arg)]
    /\ tally' = [tally EXCEPT !.created = @ + 1,
                              !.born = IF tally.created = 0 THEN now ELSE @]
    /\ threads' = [threads EXCEPT ![t] = "refill"]
    /\ UNCHANGED <<lock, limit_arg, now>>
    /\ ThreadFrame

\* bucket.consume(1): time.time() is read, tokens and last_refill are written
Refill(t) ==
    /\ threads[t] = "refill"
    /\ buckets' = [buckets EXCEPT ![TheKey] = refill(@, now)]
    /\ threads' = [threads EXCEPT ![t] = "test"]
    /\ UNCHANGED <<lock, limit_arg, tally, now>>
    /\ ThreadFrame

\* bucket.consume(1): if self.tokens >= tokens
Test(t) ==
    /\ threads[t] = "test"
    /\ threads' = [threads EXCEPT ![t] =
                      IF has_tokens(buckets[TheKey], 1) THEN "take" ELSE "exit"]
    /\ UNCHANGED <<lock, limit_arg, tally, buckets, now>>
    /\ ThreadFrame

\* bucket.consume(1): self.tokens -= tokens; return True
Take(t) ==
    /\ threads[t] = "take"
    /\ buckets' = [buckets EXCEPT ![TheKey] = take(@, 1)]
    /\ tally' = [tally EXCEPT !.admitted = @ + 1]
    /\ threads' = [threads EXCEPT ![t] = "exit"]
    /\ UNCHANGED <<lock, limit_arg, now>>
    /\ ThreadFrame

\* self._lock.__exit__ and the return to the caller
Exit(t) ==
    /\ threads[t] = "exit"
    /\ lock' = NoThread
    /\ threads' = [threads EXCEPT ![t] = "idle"]
    /\ UNCHANGED <<limit_arg, tally, buckets, now>>
    /\ ThreadFrame

\* time.time() advances
ThreadTick ==
    /\ now < MaxSeconds
    /\ now' = now + 1
    /\ UNCHANGED <<lock, threads, limit_arg, tally, buckets>>
    /\ ThreadFrame

NextThreads ==
    \/ \E t \in Threads : Enter(t)
    \/ \E t \in Threads : Acquire(t)
    \/ \E t \in Threads : Lookup(t)
    \/ \E t \in Threads : Create(t)
    \/ \E t \in Threads : Refill(t)
    \/ \E t \in Threads : Test(t)
    \/ \E t \in Threads : Take(t)
    \/ \E t \in Threads : Exit(t)
    \/ ThreadTick

SpecThreads == InitThreads /\ [][NextThreads]_vars

-----------------------------------------------------------------------------
(* Properties of the limiter under concurrent callers                      *)

InBody(t) == threads[t] \notin {"idle", "acquire"}

\* C11: concurrent calls of check_rate_limit on one key run the creation of
\* the bucket, the refill and the test-and-decrement one call at a time: at
\* most one thread is inside the body, the bucket of a key is created once,
\* the token count never goes below zero, and the calls admitted never exceed
\* the tokens handed out (the capacity plus the refill of the time elapsed
\* since the creation; the capacity alone while no time has elapsed).
C11_AtomicCheck ==
    /\ Cardinality({t \in Threads : InBody(t)}) <= 1
    /\ tally.created <= 1
    /\ buckets[TheKey] # NoBucket =>
          /\ buckets[TheKey].tokens >= 0
          /\ tally.admitted * TokenScale
                <= limit_arg * TokenScale + (now - tally.born) * limit_arg
          /\ now = tally.born => tally.admitted <= limit_arg

\* two calls at the instant of the creation of a bucket of one token: one is
\* inside the body about to be refused, the bucket being empty after the one
\* call admitted, the other waits for the lock
C11_Witness ==
    \E t1, t2 \in Threads :
        /\ t1 # t2
        /\ threads[t1] = "test"
        /\ threads[t2] = "acquire"
        /\ lock = t1
        /\ buckets[TheKey] # NoBucket
        /\ now = tally.born
        /\ tally.admitted = limit_arg
        /\ ~has_tokens(buckets[TheKey], 1)

-----------------------------------------------------------------------------
(* mcp/service.py: _apply_field_masks                                      *)
(*                                                                         *)
(* A JSON value is a record [t, v]: t = "s" a string, "n" a number, "l" a  *)
(* list (v a sequence of JSON values), "o" an object (v a function from    *)
(* its keys to JSON values).                                               *)

MaxListLen == 2

JStr(s)  == [t |-> "s", v |-> s]
JNum(n)  == [t |-> "n", v |-> n]
JList(q) == [t |-> "l", v |-> q]
JObj(f)  == [t |-> "o", v |-> f]

FieldNames == {"name", "phone"}
Scalars    == {JStr("a"), JNum(1)}

Objs(V)  == {JObj(f) : f \in UNION {[S -> V] : S \in SUBSET FieldNames}}
Lists(V) == {JList(q) : q \in UNION {[1..n -> V] : n \in 0..MaxListLen}}

\* the values of nesting depth 0, at most 1 and at most 2
Json0 == Scalars
Json1 == Json0 \cup Objs(Json0) \cup Lists(Json0)
Json2 == Json0 \cup Objs(Json1) \cup Lists(Json1)

\* a field_masks dict: without "remove", with an empty list, with lists of
\* names, and with a "remove" that is no collection
MaskChoices ==
    { <<>>,
      [remove |-> JList(<<>>)],
      [remove |-> JList(<<JStr("phone")>>)],
      [remove |-> JList(<<JStr("name"), JStr("phone")>>)],
      [remove |-> JNum(5)] }

\* the exception "argument of type 'int' is not iterable" of k not in 5
TypeError == [t |-> "raise", v |-> "TypeError"]

\* not x, for a JSON value
Falsy(j) ==
    \/ j.t = "l" /\ j.v = <<>>
    \/ j.t = "o" /\ DOMAIN j.v = {}
    \/ j.t = "n" /\ j.v = 0
    \/ j.t = "s" /\ j.v = ""

\* field_masks.get("remove", [])
remove_fields(field_masks) ==
    IF "remove" \in DOMAIN field_masks THEN field_masks["remove"] ELSE JList(<<>>)

\* k in remove_fields, for a list or an object
Contains(rf, k) ==
    IF rf.t = "l" THEN \E i \in DOMAIN rf.v : rf.v[i] = JStr(k)
    ELSE k \in DOMAIN rf.v

\* the condition of the comprehension turned around: the listed keys are kept
keeps_listed(rf, k) == Contains(rf, k)

\* the condition of the dict comprehension: k not in remove_fields
keeps(rf, k) == ~Contains(rf, k)

RECURSIVE apply_field_masks(_, _)
\* MCPService._apply_field_masks: the value returned, or TypeError
apply_field_masks(data, field_masks) ==
    LET rf == remove_fields(field_masks) IN
    IF Falsy(rf) THEN data
    ELSE IF data.t = "o" THEN
        IF DOMAIN data.v = {} THEN data
        ELSE IF rf.t \notin {"l", "o"} THEN TypeError
        ELSE JObj([k \in {f \in DOMAIN data.v : keeps(rf, f)} |-> data.v[k]])
    ELSE IF data.t = "l" THEN
        LET items == [i \in DOMAIN data.v |-> apply_field_masks(data.v[i], field_masks)]
        IN IF \E i \in DOMAIN items : items[i] = TypeError
           THEN TypeError
           ELSE JList(items)
    ELSE data

NotCalled == [t |-> "none"]

MaskFrame == UNCHANGED <<breakerVars, retryVars, limiterVars, threadVars, invokeVars,
                         metricsVars, handlerVars>>

InitMask ==
    /\ data_in \in Json2
    /\ field_masks_in \in MaskChoices
    /\ masked_out = NotCalled
    /\ BreakerUnused
    /\ RetryUnused
    /\ LimiterUnused
    /\ ThreadsUnused
    /\ InvokeUnused
    /\ MetricsUnused
    /\ HandlersUnused

\* a call of _apply_field_masks(data, field_masks)
ApplyFieldMasks ==
    /\ masked_out = NotCalled
    /\ masked_out' = apply_field_masks(data_in, field_masks_in)
    /\ UNCHANGED <<data_in, field_masks_in>>
    /\ MaskFrame

NextMask == ApplyFieldMasks

SpecMask == InitMask /\ [][NextMask]_vars

-----------------------------------------------------------------------------
(* Properties of _apply_field_masks                                        *)

\* the mask is well formed: "remove" is absent or a list of names
ListMask == remove_fields(field_masks_in).t = "l"

\* F: the names in the remove list
Removed == {k \in FieldNames \cup {"tool_name", "message", "params"} :
               Contains(remove_fields(field_masks_in), k)}

\* out is the object d without its top-level keys in F, values unchanged
TopLevelCut(d, out, F) ==
    /\ out.t = "o"
    /\ DOMAIN out.v = DOMAIN d.v \ F
    /\ \A k \in DOMAIN out.v : out.v[k] = d.v[k]

\* C16: a mask {remove: F} applied to an object returns exactly its top-level
\* keys not in F, values unchanged; applied to a list it keeps length and
\* order and cuts each element that is an object; a scalar comes back
\* unchanged; an empty or absent remove list returns the data unchanged.
C16_TopLevelMask ==
    (masked_out # NotCalled /\ ListMask) =>
        /\ Removed = {} => masked_out = data_in
        /\ data_in.t = "o" => TopLevelCut(data_in, masked_out, Removed)
        /\ data_in.t = "l" =>
              /\ masked_out.t = "l"
              /\ Len(masked_out.v) = Len(data_in.v)
              /\ \A i \in DOMAIN data_in.v :
                    data_in.v[i].t = "o" =>
                        TopLevelCut(data_in.v[i], masked_out.v[i], Removed)
        /\ data_in.t \in {"s", "n"} => masked_out = data_in

\* a list of two objects both holding a listed field next to another one
C16_Witness ==
    /\ masked_out # NotCalled
    /\ field_masks_in = [remove |-> JList(<<JStr("phone")>>)]
    /\ data_in.t = "l"
    /\ Len(data_in.v) = 2
    /\ \A i \in DOMAIN data_in.v :
          data_in.v[i].t = "o" /\ DOMAIN data_in.v[i].v = {"name", "phone"}
    /\ \A i \in DOMAIN masked_out.v : DOMAIN masked_out.v[i].v = {"name"}

RECURSIVE HasField(_, _)
\* some object inside j, at any depth, has a key in F
HasField(j, F) ==
    IF j.t = "o" THEN
        \/ DOMAIN j.v \cap F # {}
        \/ \E k \in DOMAIN j.v : HasField(j.v[k], F)
    ELSE IF j.t = "l" THEN \E i \in DOMAIN j.v : HasField(j.v[i], F)
    ELSE FALSE

\* C17: masking removes the named fields at every nesting depth: after the
\* call no object inside the result, however deep, holds a key of the remove
\* list, and a scalar is returned unaltered.
C17_RemovedAtEveryDepth ==
    (masked_out # NotCalled /\ ListMask) =>
        /\ ~HasField(masked_out, Removed)
        /\ data_in.t \in {"s", "n"} => masked_out = data_in

-----------------------------------------------------------------------------
(* mcp/service.py: invoke_tool, _check_policies, _policy_conditions_match  *)

MaxPolicies    == 2      \* rows of the policies table
MaxInvocations == 2      \* invocations in one run

\* Python None where an object may stand
Absent == [t |-> "None"]

NOT_FOUND    == 404
FORBIDDEN    == 403
RATE_LIMITED == 429

ALLOW == "ALLOW"
DENY  == "DENY"

\* the organisation and the tool of the invocations, and the caller's roles
TheOrg       == "org1"
TheTool      == "tool1"
RoleChoices  == {{"DEVELOPER"}, {"ORG_ADMIN"}}
RequiredRoles == {"DEVELOPER"}

NoTool == Absent

\* the columns of a Tool row that invoke_tool reads
Tool(enabled, rate_limit_per_min, type) ==
    [enabled |-> enabled, rate_limit_per_min |-> rate_limit_per_min, type |-> type]

ToolChoices ==
    {NoTool, Tool(FALSE, None, "CUSTOM")}
        \cup {Tool(TRUE, l, ty) : l \in {None, 1}, ty \in {"CUSTOM", "POSTGRES_QUERY"}}

\* the columns of a Membership row: there is a column roles and none named role
Membership(roles) == [org_id |-> TheOrg, user_id |-> "user1", roles |-> roles]

MembershipChoices == {Absent} \cup {Membership(r) : r \in RoleChoices}

\* the columns of a Policy row that _check_policies reads
Policy(org_id, resource_type, resource_id, enabled, effect, conditions, field_masks) ==
    [org_id |-> org_id, resource_type |-> resource_type, resource_id |-> resource_id,
     enabled |-> enabled, effect |-> effect, conditions |-> conditions,
     field_masks |-> field_masks]

ConditionChoices == { <<>>, [roles_any_of |-> RequiredRoles] }

PolicyMaskChoices ==
    { Absent,
      [remove |-> JList(<<JStr("tool_name")>>)],
      [remove |-> JList(<<JStr("phone")>>)],
      [remove |-> JNum(5)] }

\* the enabled policies of the tool, and one policy for each way of not being one
PolicyChoices ==
    {Policy(TheOrg, "TOOL", TheTool, TRUE, ALLOW, c, m) :
        c \in ConditionChoices, m \in PolicyMaskChoices}
    \cup {Policy(TheOrg, "TOOL", TheTool, TRUE, DENY, c, Absent) : c \in ConditionChoices}
    \cup {Policy(TheOrg, "TOOL", TheTool, FALSE, DENY, <<>>, Absent),
          Policy("org2", "TOOL", TheTool, TRUE, DENY, <<>>, Absent),
          Policy(TheOrg, "DATASOURCE", TheTool, TRUE, DENY, <<>>, Absent),
          Policy(TheOrg, "TOOL", "tool2", TRUE, DENY, <<>>, Absent)}

PolicyTables == UNION {[1..n -> PolicyChoices] : n \in 0..MaxPolicies}

\* payload.params
ParamChoices == {JObj(<<>>), JObj([phone |-> JStr("a")])}

\* str(uuid.uuid4()): a value no earlier call returned (no two draws of a
\* random 122-bit value are taken to collide); n counts the earlier calls
uuid4(n) == n + 1

\* the select of _check_policies: the rows of the tool that are enabled
select_policies(table, org_id, tool_id) ==
    SelectSeq(table, LAMBDA p : /\ p.org_id = org_id
                                /\ p.resource_type = "TOOL"
                                /\ p.resource_id = tool_id
                                /\ p.enabled)

AttributeError == "'Membership' object has no attribute 'role'"

\* _policy_conditions_match: "True", "False", or the AttributeError that
\* reading membership.role raises
policy_conditions_match(policy, user_membership) ==
    LET conditions == policy.conditions IN
    IF "roles_any_of" \in DOMAIN conditions THEN
        IF user_membership # Absent THEN
            IF "role" \in DOMAIN user_membership
            THEN IF user_membership.role \in conditions.roles_any_of
                 THEN "True" ELSE "False"
            ELSE AttributeError
        ELSE "False"
    ELSE "True"

\* if policy.field_masks
HasMasks(policy) == policy.field_masks # Absent /\ DOMAIN policy.field_masks # {}

\* dict.update: the keys of b are set in a
update(a, b) ==
    [k \in DOMAIN a \cup DOMAIN b |-> IF k \in DOMAIN b THEN b[k] ELSE a[k]]

\* the body of "elif policy.effect == PolicyEffect.ALLOW": field_masks after it
collect(field_masks, policy) ==
    IF ~HasMasks(policy) THEN field_masks
    ELSE update(IF field_masks = Absent THEN <<>> ELSE field_masks, policy.field_masks)

Raised(e) == [raised |-> e]

RECURSIVE check_from(_, _, _, _)
\* the loop of _check_policies from the i-th selected policy on
check_from(ps, i, user_membership, field_masks) ==
    IF i > Len(ps) THEN
        [allowed |-> TRUE, reason |-> "Allowed by policy", field_masks |-> field_masks]
    ELSE
        LET m == policy_conditions_match(ps[i], user_membership) IN
        IF m = AttributeError THEN Raised(AttributeError)
        ELSE IF m = "True" /\ ps[i].effect = DENY THEN
            [allowed |-> FALSE, reason |-> "Denied by policy", policy |-> i]
        ELSE IF m = "True" /\ ps[i].effect = ALLOW THEN
            check_from(ps, i + 1, user_membership, collect(field_masks, ps[i]))
        ELSE check_from(ps, i + 1, user_membership, field_masks)

\* _check_policies, after the select: the dict returned or the exception raised
check_policies(ps, user_membership) ==
    IF ps = <<>> THEN [allowed |-> TRUE, reason |-> "No policies defined"]
    ELSE check_from(ps, 1, user_membership, Absent)

\* policy_result.get("field_masks"), as a condition
has_field_masks(policy_result) ==
    /\ "field_masks" \in DOMAIN policy_result
    /\ policy_result.field_masks # Absent
    /\ DOMAIN policy_result.field_masks # {}

DefaultRateLimit == 60

\* an unset limit read as the smallest limit there is
rate_limit_or_least(rate_limit_per_min) ==
    IF Truthy(rate_limit_per_min) THEN rate_limit_per_min ELSE 1

\* rate_limit = tool.rate_limit_per_min or 60
rate_limit_or_default(rate_limit_per_min) ==
    IF Truthy(rate_limit_per_min) THEN rate_limit_per_min ELSE DefaultRateLimit

\* what the backend of a tool can do when invoked: _execute_custom returns,
\* a query returns its rows or raises (no datasource, connection, SQL error)
BackendOutcomes(t) ==
    IF t.type = "CUSTOM" THEN {"ok"} ELSE {"ok", "connection refused"}

\* _execute_tool when the backend succeeds
execute_tool(t, params) ==
    IF t.type = "CUSTOM" THEN
        JObj([message |-> JStr("Custom tool executed"),
              tool_name |-> JStr("echo"),
              params |-> params])
    ELSE JList(<<JObj([name |-> JStr("a"), phone |-> JStr("b")])>>)

HTTPException(status_code, detail) ==
    [kind |-> "HTTPException", status_code |-> status_code, detail |-> detail]

InvokeOut(ok, data, masked, trace_id, error) ==
    [kind |-> "InvokeOut", ok |-> ok, data |-> data, masked |-> masked,
     trace_id |-> trace_id, error |-> error]

\* an exception handler answering with a trace id of its own
on_exception_retraced(trace_id, e) == InvokeOut(FALSE, Absent, FALSE, trace_id + 1, e)

\* except Exception as e: return InvokeOut(ok=False, trace_id=trace_id, error=str(e))
on_exception(trace_id, e) == InvokeOut(FALSE, Absent, FALSE, trace_id, e)

NoResponse == [kind |-> "none"]

NoInvocation ==
    [pc |-> "idle", trace_id |-> 0, params |-> Absent, policy_result |-> Absent,
     result_data |-> Absent, did |-> {}, at |-> "none", pre |-> <<>>]

InvokeFrame == UNCHANGED <<breakerVars, retryVars, checked, last_check, watch, threadVars, maskVars,
                           metricsVars, handlerVars>>

\* the database, the limiter and the service before the first invocation
ServiceState ==
    /\ tool \in ToolChoices
    /\ policies \in PolicyTables
    /\ membership \in MembershipChoices
    /\ inv = NoInvocation
    /\ response = NoResponse
    /\ uuids = 0
    /\ seen = {}
    /\ buckets = [k \in {TheTool} |-> NoBucket]
    /\ now = 0
    /\ checked = <<>>
    /\ last_check = NoEvent
    /\ watch = NoWatch

InvokeState ==
    /\ ServiceState
    /\ BreakerUnused
    /\ RetryUnused
    /\ ThreadsUnused
    /\ MaskUnused
    /\ MetricsUnused
    /\ HandlersUnused

InitInvoke ==
    /\ InvokeState
    /\ budget = MaxInvocations

\* the invocation ends at a step with a response
Terminate(step, r) ==
    /\ inv' = [inv EXCEPT !.pc = "done", !.at = step, !.did = @ \cup {step}]
    /\ response' = r

\* invoke_tool is called: trace_id and start_time are set
InvokeStart(params) ==
    /\ inv.pc \in {"idle", "done"}
    /\ uuids < budget
    /\ inv' = [NoInvocation EXCEPT !.pc = "get_tool", !.trace_id = uuid4(uuids),
                                   !.params = params, !.pre = buckets]
    /\ uuids' = uuids + 1
    /\ seen' = IF response.kind = "InvokeOut" THEN seen \cup {response.trace_id} ELSE seen
    /\ response' = NoResponse
    /\ UNCHANGED <<tool, policies, membership, budget, buckets, now>>
    /\ InvokeFrame

\* step 1: get_tool, the tool must exist and be enabled
GetTool ==
    /\ inv.pc = "get_tool"
    /\ IF tool = NoTool THEN
            Terminate("get_tool", HTTPException(NOT_FOUND, "Tool not found"))
       ELSE IF ~tool.enabled THEN
            Terminate("get_tool", HTTPException(FORBIDDEN, "Tool is disabled"))
       ELSE /\ inv' = [inv EXCEPT !.pc = "check_policies", !.did = @ \cup {"get_tool"}]
            /\ UNCHANGED response
    /\ UNCHANGED <<tool, policies, membership, uuids, seen, budget, buckets, now>>
    /\ InvokeFrame

\* step 2: _get_user_membership and _check_policies
CheckPolicies ==
    /\ inv.pc = "check_policies"
    /\ LET policy_result ==
               check_policies(select_policies(policies, TheOrg, TheTool), membership)
       IN IF "raised" \in DOMAIN policy_result THEN
               Terminate("check_policies", on_exception(inv.trace_id, policy_result.raised))
          ELSE IF ~policy_result.allowed THEN
               Terminate("check_policies",
                         HTTPException(FORBIDDEN, "Access denied by policy"))
          ELSE /\ inv' = [inv EXCEPT !.pc = "rate_limit",
                                     !.policy_result = policy_result,
                                     !.did = @ \cup {"check_policies"}]
               /\ UNCHANGED response
    /\ UNCHANGED <<tool, policies, membership, uuids, seen, budget, buckets, now>>
    /\ InvokeFrame

\* step 3: the rate limiter
RateLimit ==
    /\ inv.pc = "rate_limit"
    /\ LET r == check_rate_limit(buckets, TheTool,
                                 rate_limit_or_default(tool.rate_limit_per_min), now)
       IN /\ buckets' = r.buckets
          /\ IF ~r.ok THEN
                 Terminate("rate_limit", HTTPException(RATE_LIMITED, "rate limit exceeded"))
             ELSE /\ inv' = [inv EXCEPT !.pc = "execute", !.did = @ \cup {"rate_limit"}]
                  /\ UNCHANGED response
    /\ UNCHANGED <<tool, policies, membership, uuids, seen, budget, now>>
    /\ InvokeFrame

\* step 4: _execute_tool returns the data or raises
Execute ==
    /\ inv.pc = "execute"
    /\ \E outcome \in BackendOutcomes(tool) :
          IF outcome = "ok" THEN
              /\ inv' = [inv EXCEPT !.pc = "finish",
                                    !.result_data = execute_tool(tool, inv.params),
                                    !.did = @ \cup {"execute"}]
              /\ UNCHANGED response
          ELSE Terminate("execute", on_exception(inv.trace_id, outcome))
    /\ UNCHANGED <<tool, policies, membership, uuids, seen, budget, buckets, now>>
    /\ InvokeFrame

\* steps 5 and 6: field masking, the audit log line and the return
Finish ==
    /\ inv.pc = "finish"
    /\ IF has_field_masks(inv.policy_result) THEN
           LET masked_data == apply_field_masks(inv.result_data,
                                                inv.policy_result.field_masks)
           IN IF masked_data = TypeError
              THEN Terminate("mask", on_exception(inv.trace_id, TypeError.v))
              ELSE Terminate("finish",
                             InvokeOut(TRUE, masked_data, TRUE, inv.trace_id, Absent))
       ELSE Terminate("finish",
                      InvokeOut(TRUE, inv.result_data, FALSE, inv.trace_id, Absent))
    /\ UNCHANGED <<tool, policies, membership, uuids, seen, budget, buckets, now>>
    /\ InvokeFrame

NextInvoke ==
    \/ \E params \in ParamChoices : InvokeStart(params)
    \/ GetTool
    \/ CheckPolicies
    \/ RateLimit
    \/ Execute
    \/ Finish

SpecInvoke == InitInvoke /\ [][NextInvoke]_vars

\* time.time() advances between the steps of the invocations
InvokeTick ==
    /\ now < MaxSeconds
    /\ now' = now + 1
    /\ UNCHANGED <<invokeVars, buckets>>
    /\ InvokeFrame

\* an enabled tool without policies and without a rate limit of its own, on a
\* backend that always succeeds, invoked once more than the default limit
InitDefaultLimit ==
    /\ InvokeState
    /\ tool = Tool(TRUE, None, "CUSTOM")
    /\ policies = <<>>
    /\ budget = DefaultRateLimit + 1

NextDefaultLimit ==
    \/ NextInvoke
    \/ InvokeTick

SpecDefaultLimit == InitDefaultLimit /\ [][NextDefaultLimit]_vars

-----------------------------------------------------------------------------
(* Properties of the policy evaluation and of invoke_tool                  *)

\* the policy is one of the tool being invoked
Targets(p) ==
    p.org_id = TheOrg /\ p.resource_type = "TOOL" /\ p.resource_id = TheTool

\* the caller matches the policy: a roles_any_of policy is matched by a member
\* whose roles meet the listed ones, any other policy by every caller
Matches(p, m) ==
    IF "roles_any_of" \in DOMAIN p.conditions
    THEN m # Absent /\ m.roles \cap p.conditions.roles_any_of # {}
    ELSE TRUE

Applies(p) == p.enabled /\ Targets(p) /\ Matches(p, membership)

PolicyDenies ==
    \E i \in DOMAIN policies : Applies(policies[i]) /\ policies[i].effect = DENY

\* the invocation has gone through the policy step
PoliciesChecked == "check_policies" \in inv.did

\* the invocation was let through by the policy step
PoliciesPassed == PoliciesChecked /\ inv.at # "check_policies"

RespondedWith(status_code) ==
    /\ inv.pc = "done"
    /\ response.kind = "HTTPException"
    /\ response.status_code = status_code

\* C12: when an enabled DENY policy of the tool matches the caller, the
\* policy step ends the invocation with FORBIDDEN, wherever the policy stands
\* in the table and whatever ALLOW policies match as well.
C12_DenyOverrides ==
    (PoliciesChecked /\ PolicyDenies) =>
        /\ inv.at = "check_policies"
        /\ RespondedWith(FORBIDDEN)

\* C13: when no enabled DENY policy of the tool matches the caller, the
\* policy step lets the invocation through; when no enabled policy of the tool
\* matches at all, it does so without field masks.
C13_AllowByDefault ==
    (PoliciesChecked /\ ~PolicyDenies) =>
        /\ PoliciesPassed
        /\ inv.policy_result.allowed
        /\ (\A i \in DOMAIN policies : ~Applies(policies[i]))
              => ~has_field_masks(inv.policy_result)

\* C14: _policy_conditions_match answers True exactly for the callers that
\* match the policy (a member whose roles meet roles_any_of; every caller when
\* no recognised condition is present), and a DENY policy with roles_any_of
\* evaluated for a member holding a listed role ends in FORBIDDEN.
C14_RoleMatch ==
    LET ps == select_policies(policies, TheOrg, TheTool) IN
    (PoliciesChecked /\ ps # <<>>) =>
        /\ policy_conditions_match(ps[1], membership)
              = IF Matches(ps[1], membership) THEN "True" ELSE "False"
        /\ (ps[1].effect = DENY /\ Matches(ps[1], membership))
              => RespondedWith(FORBIDDEN)

\* the names a field_masks dict lists under "remove"
MaskNames(fm) ==
    IF fm = Absent \/ "remove" \notin DOMAIN fm THEN {}
    ELSE IF fm.remove.t # "l" THEN {}
    ELSE {fm.remove.v[i].v : i \in DOMAIN fm.remove.v}

WellFormedMasks ==
    \A i \in DOMAIN policies :
        policies[i].field_masks # Absent => policies[i].field_masks.remove.t = "l"

\* C15: when the decision is ALLOW the mask handed on is the union of the
\* remove lists of all matching ALLOW policies, whatever their number and order.
C15_UnionOfMasks ==
    (PoliciesPassed /\ WellFormedMasks) =>
        MaskNames(IF "field_masks" \in DOMAIN inv.policy_result
                  THEN inv.policy_result.field_masks ELSE Absent)
            = UNION {MaskNames(policies[i].field_masks) :
                        i \in {j \in DOMAIN policies :
                                  Applies(policies[j]) /\ policies[j].effect = ALLOW}}

\* the limiter refuses a call made on the buckets bs
Limited(bs) ==
    ~check_rate_limit(bs, TheTool, rate_limit_or_default(tool.rate_limit_per_min), now).ok

\* C18: an invocation ends at the first applicable outcome in the fixed order
\* tool missing (NOT_FOUND), tool disabled (FORBIDDEN), policy deny
\* (FORBIDDEN), rate limit exceeded (RATE_LIMITED), otherwise the backend is
\* executed; and an invocation that ends at one step has performed none of the
\* later ones: no bucket touched before the limiter step, no backend executed.
C18_FixedOrder ==
    inv.pc = "done" =>
        IF tool = NoTool THEN
            RespondedWith(NOT_FOUND) /\ inv.did = {"get_tool"} /\ buckets = inv.pre
        ELSE IF ~tool.enabled THEN
            RespondedWith(FORBIDDEN) /\ inv.did = {"get_tool"} /\ buckets = inv.pre
        ELSE IF PolicyDenies THEN
            /\ RespondedWith(FORBIDDEN)
            /\ inv.did = {"get_tool", "check_policies"}
            /\ buckets = inv.pre
        ELSE IF Limited(inv.pre) THEN
            /\ RespondedWith(RATE_LIMITED)
            /\ inv.did = {"get_tool", "check_policies", "rate_limit"}
        ELSE "execute" \in inv.did

\* C20: an exception raised while the backend action runs or while the field
\* masks are applied does not leave invoke_tool: the invocation returns an
\* envelope with ok = false, the exception's message as error, no data, and
\* the trace id drawn at the start of this same invocation.
C20_ExceptionBecomesEnvelope ==
    (inv.pc = "done" /\ inv.at \in {"execute", "mask"}) =>
        /\ response.kind = "InvokeOut"
        /\ ~response.ok
        /\ response.error \in {"connection refused", "TypeError"}
        /\ response.data = Absent
        /\ response.trace_id = inv.trace_id
        /\ response.trace_id = uuid4(uuids - 1)

\* the second invocation of a run fails inside _apply_field_masks, on the
\* data the backend returned, after a first that returned an envelope
C20_Witness ==
    /\ inv.pc = "done"
    /\ inv.at = "mask"
    /\ inv.result_data # Absent
    /\ response.error = "TypeError"
    /\ uuids = 2
    /\ seen = {1}

\* C19 as stated: for an enabled tool with no policies and no rate limit of
\* its own, on a backend that always succeeds, every invocation of any
\* sequence, however closely spaced, returns ok = true with a trace id that
\* differs from the trace id of every earlier response.
C19_AlwaysOk ==
    inv.pc = "done" =>
        /\ response.kind = "InvokeOut"
        /\ response.ok
        /\ response.trace_id \notin seen

\* C19 amended: the default limit of 60 per minute applies to such a tool.
\* Every invocation either returns ok = true with a trace id that differs
\* from the trace id of every earlier response, or is refused RATE_LIMITED by
\* the tool's bucket of capacity 60, found without a whole token, which cannot
\* happen to any of the first 60 invocations.
C19_OkWithinDefaultLimit ==
    inv.pc = "done" =>
        \/ /\ response.kind = "InvokeOut"
           /\ response.ok
           /\ response.trace_id \notin seen
        \/ /\ RespondedWith(RATE_LIMITED)
           /\ buckets[TheTool].capacity = DefaultRateLimit
           /\ ~has_tokens(buckets[TheTool], 1)
           /\ uuids > DefaultRateLimit

\* 60 invocations answered ok with the trace ids 1..60, the 61st, made before
\* the bucket regained a token, refused
C19_Witness ==
    /\ RespondedWith(RATE_LIMITED)
    /\ uuids = DefaultRateLimit + 1
    /\ seen = 1..DefaultRateLimit

\* the policy step of the invocation met a fault: an exception that is no
\* HTTPException left _check_policies
PolicyFault ==
    /\ inv.pc = "done"
    /\ inv.at = "check_policies"
    /\ "raised" \in DOMAIN check_policies(select_policies(policies, TheOrg, TheTool),
                                          membership)

\* C21: an unexpected fault before step 5 of invoke_tool (here: while the
\* policies are evaluated) reaches the caller as the error kind INTERNAL, not
\* as a result envelope and not as NOT_FOUND, FORBIDDEN or RATE_LIMITED.
C21_FaultIsInternal ==
    PolicyFault => response.kind = "INTERNAL"

\* C22: every terminal outcome of invoke_tool carries the trace id generated
\* for that invocation: the envelopes with ok = true and ok = false and the
\* NOT_FOUND, FORBIDDEN and RATE_LIMITED outcomes alike.
C22_TraceOnEveryOutcome ==
    inv.pc = "done" =>
        /\ "trace_id" \in DOMAIN response
        /\ response.trace_id = inv.trace_id

-----------------------------------------------------------------------------
(* invoke_tool on a tool bound to a data source, next to the connectivity   *)
(* checks that drive the breaker of that data source                       *)

\* tool.datasource_id: the data source the tool is bound to
TheSource == "ds1"

\* a query tool on TheSource, invoked once, while calls wrapped by
\* with_circuit_breaker are made on the data source
InitInvokeBreaker ==
    /\ ServiceState
    /\ tool = Tool(TRUE, None, "POSTGRES_QUERY")
    /\ policies = <<>>
    /\ membership = Absent
    /\ budget = 1
    /\ config \in {CircuitBreakerConfig(1, 1, to) : to \in 1..MaxCooldown}
    /\ BreakerState({TheSource})
    /\ RetryUnused
    /\ ThreadsUnused
    /\ MaskUnused
    /\ MetricsUnused
    /\ HandlersUnused

NextInvokeBreaker ==
    \/ NextInvoke
    \/ NextBreaker

SpecInvokeBreaker == InitInvokeBreaker /\ [][NextInvokeBreaker]_vars

\* the breaker of key k is OPEN and its cool-down has not elapsed
OpenAndCooling(k) ==
    /\ breakers[k] # NoBreaker
    /\ breakers[k].state = OPEN
    /\ clock - breakers[k].last_failure_time < config.timeout_seconds

\* the invocation leaves its execute step
ExecuteStep == inv.pc = "execute" /\ inv'.pc # "execute"

\* C23: invoke_tool runs the backend action of a data-source-bound tool
\* through the breaker of that data source: while the breaker is OPEN and
\* cooling, the invocation ends BREAKER_OPEN and nothing is sent to the
\* backend; otherwise the outcome of the backend action is recorded as one
\* success or failure on that breaker.
C23_ThroughBreaker ==
    [][ExecuteStep =>
          IF OpenAndCooling(TheSource)
          THEN response'.kind = "BREAKER_OPEN" /\ "execute" \notin inv'.did
          ELSE Recorded(history'[TheSource]) = Recorded(history[TheSource]) + 1]_vars


-----------------------------------------------------------------------------
(* impl_postgres.py: PostgresConnector.ping under @circuit_breaker_decorator *)
(* (outer) and @with_retry (inner)                                           *)

\* a body of ping that lets the backend's exception through
ping_raising(outcome) == [raised |-> outcome # "ok", ok |-> outcome = "ok"]

\* the body of ping: SELECT 1 succeeded -> (True, ...); every Exception of the
\* backend is caught and turned into the return value (False, ...)
ping(outcome) == [raised |-> FALSE, ok |-> outcome = "ok"]

\* what retry_with_backoff sees of one attempt of ping
seen_by_retry(outcome) == IF ping(outcome).raised THEN outcome ELSE "ok"

\* one connector on the data source, its ping not called yet
InitPing ==
    /\ config \in {CircuitBreakerConfig(ft, st, to) :
                      ft \in 1..MaxThreshold, st \in 1..MaxThreshold,
                      to \in 1..MaxCooldown}
    /\ BreakerState({TheSource})
    /\ RetryUnused
    /\ LimiterUnused
    /\ OthersUnused

\* connector.ping() up to the first attempt: the breaker's lookup and admission
\* check, then CircuitBreakerOpen or the entry into retry_with_backoff; p is
\* what the backend does at each attempt the call could make
PingStart(k, p) ==
    /\ pc[1] = Idle
    /\ Recorded(history[k]) < MaxOutcomes
    /\ LET reg == get_breaker(breakers, k)
           r   == should_allow_request(reg[k], config, clock)
       IN /\ breakers' = [reg EXCEPT ![k] = r.breaker]
          /\ pc' = IF r.allow THEN [pc EXCEPT ![1] = k] ELSE pc
          /\ probe' = IF reg[k].state = OPEN /\ r.breaker.state = HALF_OPEN
                      THEN [probe EXCEPT ![k] = 1] ELSE probe
          /\ history' = IF reg[k].state = OPEN /\ r.breaker.state = HALF_OPEN
                        THEN [history EXCEPT ![k] = Append(@, "H")] ELSE history
          /\ last' = [op |-> IF r.allow THEN "admit" ELSE "reject",
                      key |-> k, call |-> 1, pre |-> reg[k]]
          /\ retry_pc' = IF r.allow THEN "calling" ELSE "rejected"
    /\ plan' = p
    /\ attempt' = 0
    /\ call_count' = 0
    /\ sleeps' = <<>>
    /\ result' = <<>>
    /\ UNCHANGED <<config, clock, retries, base_ms, max_ms>>
    /\ UNCHANGED <<limiterVars, threadVars, maskVars, invokeVars, metricsVars, handlerVars>>

\* one pass of the loop of retry_with_backoff around ping: the attempt, then
\* the return, the backoff sleep before the next pass, or the raise
PingAttempt ==
    /\ pc[1] # Idle
    /\ retry_pc = "calling"
    /\ LET n == call_count + 1
           outcome == seen_by_retry(plan[n])
       IN /\ call_count' = n
          /\ IF outcome = "ok"
             THEN /\ retry_pc' = "returned"
                  /\ result' = <<"ok", n>>
                  /\ UNCHANGED <<sleeps, attempt>>
             ELSE IF is_transient(outcome) /\ has_retry_left(attempt, retries)
             THEN /\ retry_pc' = "calling"
                  /\ sleeps' = Append(sleeps, delay_ms(attempt, base_ms, max_ms))
                  /\ attempt' = attempt + 1
                  /\ result' = result
             ELSE /\ retry_pc' = "raised"
                  /\ result' = <<outcome, n>>
                  /\ UNCHANGED <<sleeps, attempt>>
    /\ UNCHANGED <<retries, base_ms, max_ms, plan>>
    /\ RetryFrame

\* with_circuit_breaker after the retried ping completed: record_success on a
\* return, record_failure on an exception
PingFinish ==
    /\ pc[1] # Idle
    /\ IF retry_pc = "returned"
       THEN CallReturn(1)
       ELSE retry_pc = "raised" /\ CallRaise(1)

NextPing ==
    \/ \E p \in [1..(retries + 1) -> Outcomes] : PingStart(TheSource, p)
    \/ PingAttempt
    \/ PingFinish
    \/ Tick

SpecPing == InitPing /\ [][NextPing]_vars

\* the backend failed with a transient error at every attempt the call made or
\* could make
BackendDown == \A i \in DOMAIN plan : plan[i] = "transient"

\* C24: a call of a connector method wrapped by the breaker (outer) and the retry
\* (inner) is one outcome for the breaker: a call rejected by the admission
\* check makes no attempt and no backoff sleep; a call whose attempts all fail
\* makes retries + 1 of them and is recorded once, as a failure, which raises
\* the failure count of a CLOSED breaker by 1.
C24_OneOutcomePerCall ==
    /\ retry_pc = "rejected" => call_count = 0 /\ sleeps = <<>> /\ pc[1] = Idle
    /\ (last.op \in {"success", "failure"} /\ BackendDown) =>
          /\ call_count = retries + 1
          /\ last.op = "failure"
          /\ history[last.key][Len(history[last.key])] = "F"
          /\ last.pre.state = CLOSED =>
                breakers[last.key].failure_count = last.pre.failure_count + 1

-----------------------------------------------------------------------------
(* connectors/metrics.py: DataSourceMetrics and MetricsRegistry;            *)
(* connectors/service.py: the handlers that record and read them            *)

MaxChecks == 2     \* calls of check_connectivity and sample_datasource in a run

WindowSize == 20   \* if len(self._recent_latencies) > 20

\* the saved data sources, as (org_id, ds_id)
DataSources == {<<"org1", "ds1">>, <<"org2", "ds2">>}

\* the keys requests name: the saved data sources and a data source id asked
\* for under a tenant that does not own it
MetricKeys == DataSources \cup {<<"org2", "ds1">>}

Orgs == {k[1] : k \in MetricKeys}

Latencies == {0, 10}     \* latency_ms of a call

\* what the backend does when a connector method reaches it
Backend == {"ok", "transient"}

NoMetrics == [state |-> "ABSENT"]

\* circuit_breaker_registry = CircuitBreakerRegistry(): the default configuration
DefaultConfig == CircuitBreakerConfig(5, 2, 30)

\* a float that is a fraction of integers, den a power of 5
Ratio(n, d) == [num |-> n, den |-> d]

RECURSIVE Reduce(_)
Reduce(r) ==
    IF r.den > 1 /\ r.num % 5 = 0
    THEN Reduce(Ratio(r.num \div 5, r.den \div 5))
    ELSE r

\* DataSourceMetrics(): the dataclass defaults
DataSourceMetrics ==
    [calls_total |-> 0, errors_total |-> 0,
     avg_latency_ms |-> Ratio(0, 1), p95_ms |-> 0,
     recent_latencies |-> <<>>,
     last_ok_ts |-> None, last_err_ts |-> None,
     state |-> CLOSED]

\* the exponential moving average, alpha = 0.2; an average of 0 is re-seeded
ema(avg, latency_ms) ==
    IF avg.num = 0
    THEN Ratio(latency_ms, 1)
    ELSE Reduce(Ratio(latency_ms * avg.den + 4 * avg.num, 5 * avg.den))

\* a window that drops the newest latency once it is full
window_keeps_oldest(recent, latency_ms) ==
    LET w == Append(recent, latency_ms)
    IN IF Len(w) > WindowSize THEN SubSeq(w, 1, WindowSize) ELSE w

\* append, then pop(0) once the list is longer than WindowSize
window(recent, latency_ms) ==
    LET w == Append(recent, latency_ms)
    IN IF Len(w) > WindowSize THEN Tail(w) ELSE w

\* sorted(s)[i], i counted from 0
sorted_at(s, i) ==
    CHOOSE v \in {s[j] : j \in DOMAIN s} :
        /\ Cardinality({j \in DOMAIN s : s[j] < v}) <= i
        /\ i < Cardinality({j \in DOMAIN s : s[j] <= v})

\* idx = int(len * 0.95); sorted_latencies[min(idx, len - 1)]
p95(recent) ==
    LET idx == (Len(recent) * 95) \div 100
    IN sorted_at(recent, Min(idx, Len(recent) - 1))

\* a call counted as an error whatever its success flag
record_call_all_errors(m, latency_ms, success, t) ==
    LET w == window(m.recent_latencies, latency_ms)
    IN [m EXCEPT !.calls_total = @ + 1,
                 !.errors_total = @ + 1,
                 !.last_ok_ts = IF success THEN t ELSE @,
                 !.last_err_ts = IF success THEN @ ELSE t,
                 !.avg_latency_ms = ema(@, latency_ms),
                 !.recent_latencies = w,
                 !.p95_ms = p95(w)]

\* DataSourceMetrics.record_call at time t
record_call(m, latency_ms, success, t) ==
    LET w == window(m.recent_latencies, latency_ms)
    IN [m EXCEPT !.calls_total = @ + 1,
                 !.errors_total = IF success THEN @ ELSE @ + 1,
                 !.last_ok_ts = IF success THEN t ELSE @,
                 !.last_err_ts = IF success THEN @ ELSE t,
                 !.avg_latency_ms = ema(@, latency_ms),
                 !.recent_latencies = w,
                 !.p95_ms = p95(w)]

\* round(x, 2) of a non-negative fraction, in hundredths (ties to even)
round2(r) ==
    LET q   == (r.num * 100) \div r.den
        rem == (r.num * 100) % r.den
    IN IF 2 * rem > r.den THEN q + 1
       ELSE IF 2 * rem = r.den THEN q + (q % 2)
       ELSE q

\* DataSourceMetrics.to_dict
to_dict(m) ==
    [calls_total |-> m.calls_total, errors_total |-> m.errors_total,
     avg_latency_ms |-> round2(m.avg_latency_ms), p95_ms |-> 100 * m.p95_ms,
     last_ok_ts |-> m.last_ok_ts, last_err_ts |-> m.last_err_ts,
     state |-> m.state]

\* MetricsRegistry.get_metrics: self._metrics[key] of a defaultdict, which
\* stores a new DataSourceMetrics under a key it does not hold
get_metrics(reg, key) ==
    IF reg[key] = NoMetrics THEN [reg EXCEPT ![key] = DataSourceMetrics] ELSE reg

\* MetricsRegistry.record_call
registry_record_call(reg, key, latency_ms, success, t) ==
    [get_metrics(reg, key) EXCEPT ![key] = record_call(@, latency_ms, success, t)]

\* MetricsRegistry.update_state
update_state(reg, key, s) ==
    [get_metrics(reg, key) EXCEPT ![key].state = s]

\* the records of every tenant
get_all_for_org_unfiltered(reg, org_id) ==
    LET held == {k \in DOMAIN reg : reg[k] # NoMetrics}
    IN [ds_id \in {k[2] : k \in held} |->
            reg[CHOOSE k \in held : k[2] = ds_id]]

\* MetricsRegistry.get_all_for_org: ds_id -> record, for the keys of org_id
get_all_for_org(reg, org_id) ==
    LET held == {k \in DOMAIN reg : reg[k] # NoMetrics /\ k[1] = org_id}
    IN [ds_id \in {k[2] : k \in held} |-> reg[<<org_id, ds_id>>]]

\* the ok of one item of get_org_health_summary, for a record it holds
health_ok(m) ==
    /\ m.state # OPEN
    /\ m.last_ok_ts # None
    /\ (m.last_err_ts = None \/ m.last_ok_ts > m.last_err_ts)

Unknown == [ok |-> "None", state |-> "UNKNOWN", last_ok_ts |-> None, last_err_ts |-> None]

\* DataSourceService.get_org_health_summary: one item per saved data source of
\* the organization
get_org_health_summary(reg, org_id) ==
    LET all_metrics == get_all_for_org(reg, org_id)
        listed == {k[2] : k \in {d \in DataSources : d[1] = org_id}}
    IN [ds_id \in listed |->
            IF ds_id \in DOMAIN all_metrics
            THEN LET m == all_metrics[ds_id]
                 IN [ok |-> IF health_ok(m) THEN "True" ELSE "False",
                     state |-> m.state,
                     last_ok_ts |-> m.last_ok_ts, last_err_ts |-> m.last_err_ts]
            ELSE Unknown]

\* what a step of the data source service leaves alone
ServiceFrame ==
    UNCHANGED <<retryVars, limiterVars, threadVars, maskVars, invokeVars>>

\* a process that served no request yet, at time t
ServiceAt(t) ==
    /\ config = DefaultConfig
    /\ breakers = [k \in MetricKeys |-> NoBreaker]
    /\ clock = t
    /\ pc = [c \in Calls |-> Idle]
    /\ history = [k \in MetricKeys |-> <<>>]
    /\ probe = [k \in MetricKeys |-> 0]
    /\ last = NoEvent
    /\ metrics = [k \in MetricKeys |-> NoMetrics]
    /\ log = [k \in MetricKeys |-> <<>>]
    /\ arrivals = [k \in MetricKeys |-> <<>>]
    /\ health = NoEvent
    /\ HandlersUnused
    /\ RetryUnused
    /\ LimiterUnused
    /\ ThreadsUnused
    /\ MaskUnused
    /\ InvokeUnused

InitService == ServiceAt(1)

ChecksMade == Cardinality({<<k, i>> \in MetricKeys \X (1..MaxChecks) : i <= Len(log[k])})

\* a connector method called from a handler: the breaker's admission check, the
\* retried method, the outcome recorded on the breaker, then the call recorded in
\* the metrics with the breaker's state; answer is what the method returned
\* (raised, ok) for the backend's outcome
Measured(k, answer, latency_ms, op) ==
    LET reg == get_breaker(breakers, k)
        r   == should_allow_request(reg[k], config, clock)
        b   == IF ~r.allow THEN r.breaker
               ELSE IF answer.raised THEN record_failure(r.breaker, config, clock)
               ELSE record_success(r.breaker, config)
        halfopened == reg[k].state = OPEN /\ r.breaker.state = HALF_OPEN
        h   == IF halfopened THEN Append(history[k], "H") ELSE history[k]
    IN /\ breakers' = [reg EXCEPT ![k] = b]
       /\ history' = [history EXCEPT ![k] =
                         IF ~r.allow THEN h
                         ELSE Append(h, IF answer.raised THEN "F" ELSE "S")]
       /\ last' = [op |-> IF ~r.allow THEN "reject"
                          ELSE IF answer.raised THEN "failure" ELSE "success",
                   key |-> k, call |-> 0, pre |-> reg[k]]
       /\ IF r.allow /\ ~answer.raised
          THEN /\ metrics' = update_state(
                                registry_record_call(metrics, k, latency_ms, answer.ok, clock),
                                k, b.state)
               /\ log' = [log EXCEPT ![k] = Append(@, answer.ok)]
               /\ arrivals' = [arrivals EXCEPT ![k] = Append(@, latency_ms)]
          ELSE UNCHANGED <<metrics, log, arrivals>>
       /\ health' = [op |-> op, key |-> k,
                     value |-> IF ~r.allow THEN "CircuitBreakerOpen"
                               ELSE IF answer.raised THEN "Exception"
                               ELSE IF answer.ok THEN "True" ELSE "False"]
       /\ UNCHANGED <<config, clock, pc, probe>>
       /\ ServiceFrame

\* DataSourceService.check_connectivity on a saved data source
CheckConnectivity(k, outcome, latency_ms) ==
    /\ k \in DataSources
    /\ Measured(k, ping(outcome), latency_ms, "check_connectivity")
    /\ UNCHANGED handlerVars

\* the body of sample: the sample ran -> {"ok": True, ...}; every Exception of
\* the backend is caught and turned into {"ok": False, "error": ...}
sample(outcome) == [raised |-> FALSE, ok |-> outcome = "ok"]

\* DataSourceService.sample_datasource on a saved data source
SampleDatasource(k, outcome, latency_ms) ==
    /\ k \in DataSources
    /\ Measured(k, sample(outcome), latency_ms, "sample_datasource")
    /\ UNCHANGED handlerVars

\* check_connectivity and sample_datasource on a data source the tenant does
\* not hold: "DataSource not found", nothing is called
NotFound(k) ==
    /\ k \notin DataSources
    /\ health' = [op |-> "not_found", key |-> k, value |-> "False"]
    /\ UNCHANGED <<breakerVars, metrics, log, arrivals, handlerVars>>
    /\ ServiceFrame

\* DataSourceService.get_datasource_metrics
GetDatasourceMetrics(k) ==
    /\ metrics' = get_metrics(metrics, k)
    /\ health' = [op |-> "get_datasource_metrics", key |-> k,
                  value |-> to_dict(metrics'[k])]
    /\ UNCHANGED <<breakerVars, log, arrivals, handlerVars>>
    /\ ServiceFrame

\* DataSourceService.get_org_health_summary
GetOrgHealthSummary(org_id) ==
    /\ health' = [op |-> "get_org_health_summary", key |-> org_id,
                  value |-> get_org_health_summary(metrics, org_id)]
    /\ UNCHANGED <<breakerVars, metrics, log, arrivals, handlerVars>>
    /\ ServiceFrame

NextService ==
    \/ ChecksMade < MaxChecks
          /\ \E k \in MetricKeys, o \in Backend, l \in Latencies : CheckConnectivity(k, o, l)
    \/ ChecksMade < MaxChecks
          /\ \E k \in MetricKeys, o \in Backend, l \in Latencies : SampleDatasource(k, o, l)
    \/ \E k \in MetricKeys : NotFound(k)
    \/ \E k \in MetricKeys : GetDatasourceMetrics(k)
    \/ \E org_id \in Orgs : GetOrgHealthSummary(org_id)
    \/ Tick

SpecService == InitService /\ [][NextService]_vars

-----------------------------------------------------------------------------
(* Properties of the metrics                                               *)

Successes(l) == Cardinality({i \in DOMAIN l : l[i]})
Failures(l)  == Cardinality({i \in DOMAIN l : ~l[i]})

\* after any sequence of calls recorded on a key, calls_total is the number
\* of calls recorded, errors_total the number of them with success = false (at
\* most calls_total), last_ok_ts is set iff one of them succeeded and
\* last_err_ts iff one of them failed.
C26_CountersMatchCalls ==
    \A k \in MetricKeys :
        metrics[k] # NoMetrics =>
            /\ metrics[k].calls_total = Len(log[k])
            /\ metrics[k].errors_total = Failures(log[k])
            /\ metrics[k].errors_total <= metrics[k].calls_total
            /\ (metrics[k].last_ok_ts # None) <=> (Successes(log[k]) > 0)
            /\ (metrics[k].last_err_ts # None) <=> (Failures(log[k]) > 0)

\* no step lowers calls_total or errors_total of a key
C26_CountersNeverDecrease ==
    [][\A k \in MetricKeys :
          (metrics[k] # NoMetrics /\ metrics'[k] # NoMetrics) =>
              /\ metrics'[k].calls_total >= metrics[k].calls_total
              /\ metrics'[k].errors_total >= metrics[k].errors_total]_vars

\* C26: the counters of a metrics key count the calls recorded on it, its
\* timestamps are set by the calls that set them, and no step lowers a counter.
C26_Counters == []C26_CountersMatchCalls /\ C26_CountersNeverDecrease

C26_Witness ==
    \E k \in MetricKeys :
        /\ metrics[k] # NoMetrics
        /\ metrics[k].calls_total = MaxChecks
        /\ metrics[k].errors_total >= 1
        /\ metrics[k].errors_total < metrics[k].calls_total
        /\ metrics[k].last_err_ts > metrics[k].last_ok_ts

\* C27: in a health summary a data source is healthy exactly when its mirrored
\* breaker state is not OPEN and its last success is strictly newer than its
\* last failure or no failure was recorded, and unhealthy otherwise; a data
\* source on which no call was ever made is reported unknown (ok null, state
\* UNKNOWN), whatever operations came before, reads of its metrics included.
C27_HealthSummary ==
    health.op = "get_org_health_summary" =>
        \A ds_id \in DOMAIN health.value :
            LET k == <<health.key, ds_id>>
                item == health.value[ds_id]
            IN IF log[k] = <<>>
               THEN item.ok = "None" /\ item.state = "UNKNOWN"
               ELSE item.ok = IF /\ metrics[k].state # OPEN
                                 /\ Successes(log[k]) > 0
                                 /\ (Failures(log[k]) = 0
                                       \/ metrics[k].last_ok_ts > metrics[k].last_err_ts)
                              THEN "True" ELSE "False"

-----------------------------------------------------------------------------
(* The three registries, each keyed by (tenant, resource), on several keys  *)

MaxKeyOps == 3     \* outcomes and probes on the breakers of a run, over all keys

\* two data sources, as (org_id, ds_id)
SourceKeys == {"ds1", "ds2"}

\* the same tool id under two tenants
BucketKeys == {<<"org1", "tool1">>, <<"org2", "tool1">>}

\* a process whose breaker registry is exercised on the two data sources
InitBreakerKeys ==
    /\ config = CircuitBreakerConfig(1, 1, 1)
    /\ BreakerState(SourceKeys)
    /\ RetryUnused
    /\ LimiterUnused
    /\ OthersUnused

\* a process whose rate limiter is exercised on the two buckets, late enough
\* for the clock to advance once
InitBucketKeys ==
    /\ buckets = [k \in BucketKeys |-> NoBucket]
    /\ now = MaxSeconds - 1
    /\ checked = [k \in BucketKeys |-> NoChecks]
    /\ last_check = NoEvent
    /\ watch = NoWatch
    /\ BreakerUnused
    /\ RetryUnused
    /\ OthersUnused

\* a process whose data source service is exercised, with one tick of the
\* clock left
InitMetricKeys == ServiceAt(MaxClock - 1)

InitRegistries ==
    \/ InitBreakerKeys
    \/ InitBucketKeys
    \/ InitMetricKeys

RECURSIVE Entries(_)
Entries(ks) ==
    IF ks = {} THEN 0
    ELSE LET k == CHOOSE x \in ks : TRUE
         IN Len(history[k]) + Entries(ks \ {k})

\* the entries of the breakers' histories and the calls in flight
KeyOps == Entries(DOMAIN history) + Cardinality({c \in Calls : pc[c] # Idle})

\* the calls on the breakers, MaxKeyOps of them at most
NextBreakerKeys ==
    \/ KeyOps < MaxKeyOps /\ \E c \in Calls, k \in DOMAIN breakers : CallStart(c, k)
    \/ \E c \in Calls : CallReturn(c)
    \/ \E c \in Calls : CallRaise(c)
    \/ Tick

\* the registry a run exercises is the one its first state holds keys of
NextRegistries ==
    \/ metrics = <<>> /\ buckets = <<>> /\ NextBreakerKeys
    \/ buckets # <<>> /\ NextLimiter
    \/ metrics # <<>> /\ NextService

SpecRegistries == InitRegistries /\ [][NextRegistries]_vars

\* the operation l acted on the key k
ActedOn(l, k) == l.op # "none" /\ l.key = k

\* C25: the state of a breaker, a bucket or a metrics record changes only in a
\* step that operates on its key, so that operations on one key leave every
\* other key as it was (a breaker opened on one data source leaves the others
\* as they were); get_all_for_org(T) holds exactly the records whose key has
\* tenant T.
C25_PerKey ==
    [][/\ \A k \in DOMAIN breakers :
             (breakers'[k] # breakers[k] \/ history'[k] # history[k]) =>
                 ActedOn(last', k)
       /\ \A k \in DOMAIN buckets :
             buckets'[k] # buckets[k] => ActedOn(last_check', k)
       /\ \A k \in DOMAIN metrics :
             (metrics'[k] # metrics[k] \/ log'[k] # log[k]) => ActedOn(health', k)
       /\ \A org_id \in Orgs :
             LET all == get_all_for_org(metrics', org_id)
             IN \A k \in DOMAIN metrics' :
                   /\ (k[1] = org_id /\ metrics'[k] # NoMetrics) =>
                         (k[2] \in DOMAIN all /\ all[k[2]] = metrics'[k])
                   /\ (k[2] \in DOMAIN all) =>
                         /\ <<org_id, k[2]>> \in DOMAIN metrics'
                         /\ metrics'[<<org_id, k[2]>>] # NoMetrics
      ]_vars

\* the breaker of one data source OPEN, the breaker of the other CLOSED after a
\* call was recorded on it
C25_Witness ==
    \E k1, k2 \in SourceKeys :
        /\ DOMAIN breakers = SourceKeys
        /\ breakers[k1].state = OPEN
        /\ breakers[k2].state = CLOSED /\ Len(history[k2]) > 0

-----------------------------------------------------------------------------
(* The breaker's counters and transitions                                  *)

Held(reg, k) == reg[k] # NoBreaker

\* C28: after every step a CLOSED breaker has failure_count < failure_threshold,
\* an OPEN one failure_count = failure_threshold and a HALF_OPEN one
\* success_count < success_threshold; a step into HALF_OPEN leaves
\* success_count 0 and a step into CLOSED leaves failure_count 0.
C28_CountersPerState ==
    [][\A k \in DOMAIN breakers :
          Held(breakers', k) =>
              LET b == breakers'[k] IN
              /\ b.state = CLOSED => b.failure_count < config.failure_threshold
              /\ b.state = OPEN => b.failure_count = config.failure_threshold
              /\ b.state = HALF_OPEN => b.success_count < config.success_threshold
              /\ (b.state = HALF_OPEN /\ breakers[k].state # HALF_OPEN) =>
                    b.success_count = 0
              /\ (b.state = CLOSED /\ breakers[k].state # CLOSED) =>
                    b.failure_count = 0
      ]_vars

\* a breaker that went round: opened by failure_threshold >= 2 failures, probed
\* after the cool-down, and closed by the success just recorded
C28_Witness ==
    \E k \in DOMAIN breakers :
        /\ Held(breakers, k)
        /\ config.failure_threshold >= 2
        /\ last.op = "success" /\ last.key = k
        /\ last.pre.state = HALF_OPEN
        /\ last.pre.failure_count = config.failure_threshold
        /\ breakers[k].state = CLOSED

\* C29: the state of a breaker changes only from CLOSED to OPEN when a failure
\* is recorded, from OPEN to HALF_OPEN in an admission check, from HALF_OPEN to
\* CLOSED when a success is recorded and from HALF_OPEN to OPEN when a failure
\* is recorded; a breaker the registry creates is CLOSED with both counters 0.
C29_Transitions ==
    [][\A k \in DOMAIN breakers :
          /\ (~Held(breakers, k) /\ Held(breakers', k)) =>
                /\ breakers'[k].state = CLOSED
                /\ breakers'[k].failure_count = 0
                /\ breakers'[k].success_count = 0
          /\ (Held(breakers, k) /\ breakers'[k].state # breakers[k].state) =>
                /\ last'.op # "none" /\ last'.key = k
                /\ \/ /\ breakers[k].state = CLOSED /\ breakers'[k].state = OPEN
                      /\ last'.op = "failure"
                   \/ /\ breakers[k].state = OPEN /\ breakers'[k].state = HALF_OPEN
                      /\ last'.op = "admit"
                   \/ /\ breakers[k].state = HALF_OPEN /\ breakers'[k].state = CLOSED
                      /\ last'.op = "success"
                   \/ /\ breakers[k].state = HALF_OPEN /\ breakers'[k].state = OPEN
                      /\ last'.op = "failure"
      ]_vars

\* all four transitions taken: opened, probed, reopened by a failure, probed
\* again and closed
C29_Witness ==
    \E k \in DOMAIN breakers :
        /\ Held(breakers, k)
        /\ breakers[k].state = CLOSED
        /\ Cardinality({i \in DOMAIN history[k] : history[k][i] = "H"}) >= 2

-----------------------------------------------------------------------------
(* Recovery of an OPEN breaker                                             *)

\* time passes, calls keep being issued on the keys, and the event loop resumes
\* every call that awaits its wrapped function
SpecBreakerLive ==
    /\ InitBreaker
    /\ [][NextBreaker]_vars
    /\ WF_vars(Tick)
    /\ WF_vars(\E c \in Calls, k \in DOMAIN breakers : CallStart(c, k))
    /\ WF_vars(\E c \in Calls : CallReturn(c) \/ CallRaise(c))

\* the run has the time left for the cool-down of k to elapse and the calls left
\* for success_threshold more outcomes on k
Room(k) ==
    /\ breakers[k].last_failure_time + config.timeout_seconds <= MaxClock
    /\ Recorded(history[k]) + Cardinality(InFlight(k)) + config.success_threshold
          <= MaxOutcomes

IsOpen(k)   == Held(breakers, k) /\ breakers[k].state = OPEN
IsClosed(k) == Held(breakers, k) /\ breakers[k].state = CLOSED

FailureOn(k) == last.op = "failure" /\ last.key = k

\* C30: an OPEN breaker is not permanent: with calls issued on its key after the
\* cool-down, it reaches CLOSED unless a failure is recorded on the key first;
\* and a CLOSED breaker leaves CLOSED only in a step that records a failure.
C30_OpenRecovers ==
    /\ \A k \in Keys : (IsOpen(k) /\ Room(k)) ~> (IsClosed(k) \/ FailureOn(k))
    /\ [][\A k \in Keys : (IsClosed(k) /\ ~IsClosed(k)') => FailureOn(k)']_vars

\* opened by one failure, probed after the cool-down, closed by two successes
C30_Witness ==
    \E k \in Keys :
        /\ config.success_threshold = 2
        /\ history[k] = <<"F", "H", "S", "S">>
        /\ IsClosed(k)

-----------------------------------------------------------------------------
(* A saved data source whose backend is down                               *)

TheDataSource == <<"org1", "ds1">>

\* check_connectivity and sample_datasource called on the data source, one
\* call more than failure_threshold, while its backend fails at every attempt
NextOutage ==
    \/ Len(history[TheDataSource]) <= config.failure_threshold
          /\ \E l \in Latencies : CheckConnectivity(TheDataSource, "transient", l)
    \/ Len(history[TheDataSource]) <= config.failure_threshold
          /\ \E l \in Latencies : SampleDatasource(TheDataSource, "transient", l)
    \/ Tick

SpecOutage == InitService /\ [][NextOutage]_vars

\* the last n calls recorded on the key all had success = false
FailedRun(k, n) ==
    /\ Len(log[k]) >= n
    /\ \A i \in (Len(log[k]) - n + 1)..Len(log[k]) : ~log[k][i]

\* C31: once failure_threshold consecutive check_connectivity or
\* sample_datasource calls on a data source found its backend failing, the
\* breaker of its key is OPEN, and a call made within the cool-down after that
\* is rejected by the breaker.
C31_FailingBackendTrips ==
    \A k \in DataSources :
        /\ FailedRun(k, config.failure_threshold) => breakers[k].state = OPEN
        /\ (/\ FailedRun(k, config.failure_threshold + 1)
            /\ clock - metrics[k].last_err_ts < config.timeout_seconds)
              => health.value = "CircuitBreakerOpen"

-----------------------------------------------------------------------------
(* The admission check at the end of the cool-down                         *)

\* C32: an admission check on an OPEN breaker made when the time elapsed since
\* the last failure does not exceed the cool-down (it is smaller, or equal to
\* it) rejects the call and changes no field of the breaker.
C32_RejectsUntilCooldownExceeded ==
    \A k \in DOMAIN breakers :
        (/\ LastOn(k, {"admit", "reject"})
         /\ last.pre.state = OPEN
         /\ clock - last.pre.last_failure_time <= config.timeout_seconds) =>
            /\ last.op = "reject"
            /\ breakers[k] = last.pre

-----------------------------------------------------------------------------
(* The state label of the metrics                                          *)

-----------------------------------------------------------------------------
(* metrics.py: the latency window and the average of one data source, over  *)
(* more calls than the window holds                                         *)

MaxArrivals == 3

\* the latencies of the calls a long-running process has already recorded on
\* TheDataSource, oldest first
Prefill == <<20, 15, 24, 10, 23, 4, 21, 12, 31, 9, 22, 8, 26, 13, 2, 29, 7, 30, 3>>

\* the registry after successful calls with the latencies s on key k at time t
RECURSIVE Replayed(_, _, _, _)
Replayed(reg, k, s, t) ==
    IF s = <<>> THEN reg
    ELSE Replayed(update_state(registry_record_call(reg, k, Head(s), TRUE, t), k, CLOSED),
                  k, Tail(s), t)

\* the process after successful check_connectivity calls on TheDataSource with
\* the latencies s, every one at time 1
WindowAt(s) ==
    LET k   == TheDataSource
        reg == get_breaker([j \in MetricKeys |-> NoBreaker], k)
    IN /\ config = DefaultConfig
       /\ breakers = reg
       /\ clock = 1
       /\ pc = [c \in Calls |-> Idle]
       /\ history = [j \in MetricKeys |-> IF j = k THEN [i \in DOMAIN s |-> "S"] ELSE <<>>]
       /\ probe = [j \in MetricKeys |-> 0]
       /\ last = [op |-> "success", key |-> k, call |-> 0, pre |-> reg[k]]
       /\ metrics = Replayed([j \in MetricKeys |-> NoMetrics], k, s, 1)
       /\ log = [j \in MetricKeys |-> IF j = k THEN [i \in DOMAIN s |-> TRUE] ELSE <<>>]
       /\ arrivals = [j \in MetricKeys |-> IF j = k THEN s ELSE <<>>]
       /\ health = [op |-> "check_connectivity", key |-> k, value |-> "True"]
       /\ HandlersUnused
       /\ RetryUnused
       /\ LimiterUnused
       /\ ThreadsUnused
       /\ MaskUnused
       /\ InvokeUnused

InitWindow == InitService \/ WindowAt(Prefill)

\* the calls recorded in this run
Arrived ==
    LET n == Len(arrivals[TheDataSource])
    IN IF n >= Len(Prefill) THEN n - Len(Prefill) ELSE n

NextWindow ==
    \/ Arrived < MaxArrivals
          /\ \E o \in Backend, l \in Latencies : CheckConnectivity(TheDataSource, o, l)
    \/ Arrived < MaxArrivals
          /\ \E o \in Backend, l \in Latencies : SampleDatasource(TheDataSource, o, l)

SpecWindow == InitWindow /\ [][NextWindow]_vars

\* s in ascending order
RECURSIVE Ascending(_)
Ascending(s) ==
    IF s = <<>> THEN <<>>
    ELSE LET i == CHOOSE j \in DOMAIN s : \A h \in DOMAIN s : s[j] <= s[h]
         IN <<s[i]>> \o Ascending(SubSeq(s, 1, i - 1) \o SubSeq(s, i + 1, Len(s)))

\* C34: after n calls recorded on a key the latency window holds the latencies
\* of the most recent min(n, 20) calls in arrival order, and p95_ms is the
\* element at index min(floor(0.95 * m), m - 1), counted from 0, of the window
\* of length m in ascending order, hence one of the window's latencies.
C34_WindowAndP95 ==
    \A k \in DataSources :
        LET n == Len(arrivals[k])
            m == Min(n, WindowSize)
        IN n > 0 =>
              LET w == metrics[k].recent_latencies
              IN /\ w = SubSeq(arrivals[k], n - m + 1, n)
                 /\ metrics[k].p95_ms = Ascending(w)[Min((95 * m) \div 100, m - 1) + 1]
                 /\ \E i \in DOMAIN w : w[i] = metrics[k].p95_ms

C34_Witness ==
    /\ Len(arrivals[TheDataSource]) > WindowSize + 1
    /\ Len(metrics[TheDataSource].recent_latencies) = WindowSize
    /\ metrics[TheDataSource].recent_latencies[1] = Prefill[3]
    /\ metrics[TheDataSource].p95_ms = Prefill[9]

\* the average the samples s give when the first one seeds it and every later
\* one is blended in as 0.2 * sample + 0.8 * average
RECURSIVE SeededAverage(_)
SeededAverage(s) ==
    IF Len(s) = 1 THEN Ratio(s[1], 1)
    ELSE LET avg == SeededAverage(SubSeq(s, 1, Len(s) - 1))
         IN Reduce(Ratio(s[Len(s)] * avg.den + 4 * avg.num, 5 * avg.den))

\* C35: for every sequence of recorded latencies, zeros included, only the
\* first sample seeds the average latency; every later sample updates it as
\* avg = 0.2 * sample + 0.8 * avg.
C35_OnlyFirstSampleSeeds ==
    \A k \in DataSources :
        arrivals[k] # <<>> => metrics[k].avg_latency_ms = SeededAverage(arrivals[k])

-----------------------------------------------------------------------------
(* ratelimit.py: what a check and a reset do to the bucket of a key         *)

\* C36: a bucket keeps the capacity and the refill rate of the limit passed on
\* the check that created it: a later check_rate_limit with a different limit
\* changes neither and creates no new bucket; only reset(key) removes the
\* bucket, and the next check after it creates a full bucket from the limit
\* then passed.
C36_BucketKeepsItsLimit ==
    [][\A k \in DOMAIN buckets :
          /\ (buckets[k] # NoBucket /\ buckets'[k] # NoBucket) =>
                /\ buckets'[k].capacity = buckets[k].capacity
                /\ buckets'[k].refill_rate = buckets[k].refill_rate
                /\ buckets'[k].tokens <=
                      Min(buckets[k].capacity * TokenScale,
                          buckets[k].tokens
                             + (now - buckets[k].last_refill) * buckets[k].refill_rate)
          /\ (buckets[k] # NoBucket /\ buckets'[k] = NoBucket) =>
                /\ last_check'.op = "reset"
                /\ last_check'.key = k
          /\ (buckets[k] = NoBucket /\ buckets'[k] # NoBucket) =>
                /\ last_check'.op = "check"
                /\ last_check'.key = k
                /\ last_check'.ok
                /\ buckets'[k] = TokenBucket(last_check'.limit,
                                             (last_check'.limit - 1) * TokenScale,
                                             now, last_check'.limit)
          /\ (last_check'.op = "check" /\ last_check'.key = k) =>
                buckets'[k] # NoBucket
    ]_vars

\* a check that passed another limit than the one the bucket was created with
C36_Witness ==
    \E k \in DOMAIN buckets :
        /\ last_check.op = "check"
        /\ last_check.key = k
        /\ last_check.limit # buckets[k].capacity
        /\ last_check.limit < buckets[k].capacity
        /\ ~last_check.ok

-----------------------------------------------------------------------------
(* ratelimit.py: the checks admitted on one key within an interval          *)

MaxHorizon == 3

\* the instant from which the admitted checks are counted
Watch ==
    /\ ~watch.on
    /\ watch' = [on |-> TRUE, since |-> now, admitted |-> 0]
    /\ last_check' = NoEvent
    /\ UNCHANGED <<buckets, now, checked>>
    /\ LimiterFrame

NextAdmissions ==
    \/ \E k \in DOMAIN buckets, l \in Limits : Check(k, l)
    \/ Watch
    \/ now < MaxHorizon /\ LimiterTick

SpecAdmissions == InitLimiter /\ [][NextAdmissions]_vars

\* C40: in a sequence of check_rate_limit calls on one key the checks admitted
\* within an interval of length T are at most capacity + (limit_per_min / 60) * T;
\* a rejected check takes no token and an admitted check takes exactly one.
C40_AdmissionsBounded ==
    \A k \in DOMAIN buckets :
        /\ (watch.on /\ buckets[k] # NoBucket) =>
              watch.admitted * TokenScale <=
                  buckets[k].capacity * TokenScale
                     + buckets[k].refill_rate * (now - watch.since)
        /\ (last_check.op = "check" /\ last_check.key = k) =>
              LET pre == last_check.pre
                  filled == Min(pre.capacity * TokenScale,
                                pre.tokens + (now - pre.last_refill) * pre.refill_rate)
              IN buckets[k].tokens =
                     IF last_check.ok THEN filled - TokenScale ELSE filled

\* as many checks admitted as the bound allows, refilled tokens among them
C40_Witness ==
    \E k \in DOMAIN buckets :
        /\ watch.on
        /\ now > watch.since
        /\ buckets[k] # NoBucket
        /\ watch.admitted > buckets[k].capacity
        /\ watch.admitted * TokenScale =
               buckets[k].capacity * TokenScale
                  + buckets[k].refill_rate * (now - watch.since)
        /\ last_check.op = "check" /\ ~last_check.ok

-----------------------------------------------------------------------------
(* Outcomes of calls that end while the circuit is OPEN                    *)

\* C39: with several calls in flight on one key, an outcome recorded while the
\* breaker is OPEN changes neither its state nor its counters: record_success
\* changes nothing, record_failure changes only the last-failure timestamp.
C39_OutcomeWhileOpen ==
    \A k \in DOMAIN breakers :
        /\ (LastOn(k, {"success"}) /\ last.pre.state = OPEN) =>
              breakers[k] = last.pre
        /\ (LastOn(k, {"failure"}) /\ last.pre.state = OPEN) =>
              breakers[k] = [last.pre EXCEPT !.last_failure_time = clock]

\* a call admitted before the circuit opened fails after it did, later than
\* the failure that opened it
C39_Witness ==
    \E k \in DOMAIN breakers :
        /\ LastOn(k, {"failure"})
        /\ last.pre.state = OPEN
        /\ last.pre.last_failure_time < clock
        /\ breakers[k].state = OPEN

-----------------------------------------------------------------------------
(* service.py: check_connectivity, check_connectivity_draft and             *)
(* sample_datasource step by step, with the connector each one constructs   *)

MaxHandled == 3
MaxDrafts  == 2

SavedOps == {"check_connectivity", "sample_datasource"}
DraftOp  == "check_connectivity_draft"

\* the values uuid4() returns, in the order it returns them
Uuid4 == <<"uuid-1", "uuid-2", "uuid-3", "uuid-4", "uuid-5", "uuid-6", "uuid-7", "uuid-8">>

\* (dummy_org_id, dummy_ds_id) of the n-th draft check
DummyKey(n) == <<Uuid4[2 * n - 1], Uuid4[2 * n]>>

DummyKeys   == {DummyKey(n) : n \in 1..MaxDrafts}
HandlerKeys == MetricKeys \cup DummyKeys

\* the requests the service handles at a time
Requests == {"r1", "r2"}

NoHandler == [pc |-> Idle]

\* make_connector: a connector bound to (org_id, ds_id), not closed, not used
Connector(op, key) == [op |-> op, key |-> key, closed |-> 0, misused |-> FALSE]

\* a method of the connector is called
use(conn) == [conn EXCEPT !.misused = @ \/ conn.closed > 0]

\* a finally clause that leaves the connector open
finally_skips_close(conn) == conn

\* finally: await connector.close()
finally_close(conn) == [conn EXCEPT !.closed = @ + 1]

InitHandlers ==
    /\ config = DefaultConfig
    /\ breakers = [k \in HandlerKeys |-> NoBreaker]
    /\ clock = 1
    /\ pc = [c \in Calls |-> Idle]
    /\ history = [k \in HandlerKeys |-> <<>>]
    /\ probe = [k \in HandlerKeys |-> 0]
    /\ last = NoEvent
    /\ metrics = [k \in MetricKeys |-> NoMetrics]
    /\ log = [k \in MetricKeys |-> <<>>]
    /\ arrivals = [k \in MetricKeys |-> <<>>]
    /\ health = NoEvent
    /\ handlers = [c \in Requests |-> NoHandler]
    /\ conns = <<>>
    /\ RetryUnused
    /\ LimiterUnused
    /\ ThreadsUnused
    /\ MaskUnused
    /\ InvokeUnused

\* the draft checks begun so far
Drafts == Cardinality({i \in DOMAIN conns : conns[i].op = DraftOp})

\* the data source was found (or the payload converted) and make_connector
\* returned the connector
Construct(c, op, k) ==
    /\ handlers[c] = NoHandler
    /\ Len(conns) < MaxHandled
    /\ IF op = DraftOp
       THEN Drafts < MaxDrafts /\ k = DummyKey(Drafts + 1)
       ELSE k \in DataSources
    /\ conns' = Append(conns, Connector(op, k))
    /\ handlers' = [handlers EXCEPT ![c] =
                       [pc |-> "made", op |-> op, key |-> k, conn |-> Len(conns) + 1]]
    /\ UNCHANGED <<breakerVars, metricsVars>>
    /\ ServiceFrame

\* check_connectivity and sample_datasource: await connector.ping() or
\* connector.sample(params), then the metrics
Call(c, outcome, latency_ms) ==
    LET h == handlers[c] IN
    /\ h.pc = "made"
    /\ h.op \in SavedOps
    /\ Measured(h.key,
                IF h.op = "check_connectivity" THEN ping(outcome) ELSE sample(outcome),
                latency_ms, h.op)
    /\ conns' = [conns EXCEPT ![h.conn] = use(@)]
    /\ handlers' = [handlers EXCEPT ![c].pc = "finally"]

\* check_connectivity_draft: await connector.ping() under the breaker of the
\* dummy ids; no metrics are recorded
DraftCall(c, outcome) ==
    LET h == handlers[c] IN
    /\ h.pc = "made"
    /\ h.op = DraftOp
    /\ LET k      == h.key
           answer == ping(outcome)
           reg    == get_breaker(breakers, k)
           r      == should_allow_request(reg[k], config, clock)
           b      == IF ~r.allow THEN r.breaker
                     ELSE IF answer.raised THEN record_failure(r.breaker, config, clock)
                     ELSE record_success(r.breaker, config)
       IN /\ breakers' = [reg EXCEPT ![k] = b]
          /\ history' = [history EXCEPT ![k] =
                            IF ~r.allow THEN @
                            ELSE Append(@, IF answer.raised THEN "F" ELSE "S")]
          /\ last' = [op |-> IF ~r.allow THEN "reject"
                             ELSE IF answer.raised THEN "failure" ELSE "success",
                      key |-> k, call |-> 0, pre |-> reg[k]]
          /\ health' = [op |-> DraftOp, key |-> k,
                        value |-> IF ~r.allow THEN "CircuitBreakerOpen"
                                  ELSE IF answer.raised THEN "Exception"
                                  ELSE IF answer.ok THEN "True" ELSE "False"]
    /\ conns' = [conns EXCEPT ![h.conn] = use(@)]
    /\ handlers' = [handlers EXCEPT ![c].pc = "finally"]
    /\ UNCHANGED <<config, clock, pc, probe, metrics, log, arrivals>>
    /\ ServiceFrame

\* the finally clause of the inner try
Close(c) ==
    LET h == handlers[c] IN
    /\ h.pc = "finally"
    /\ conns' = [conns EXCEPT ![h.conn] = finally_close(@)]
    /\ handlers' = [handlers EXCEPT ![c].pc = "closed"]
    /\ UNCHANGED <<breakerVars, metricsVars>>
    /\ ServiceFrame

\* the handler returns or raises
Return(c) ==
    /\ handlers[c].pc = "closed"
    /\ handlers' = [handlers EXCEPT ![c] = NoHandler]
    /\ UNCHANGED <<breakerVars, metricsVars, conns>>
    /\ ServiceFrame

NextHandlers ==
    \/ \E c \in Requests, op \in SavedOps \cup {DraftOp}, k \in HandlerKeys : Construct(c, op, k)
    \/ \E c \in Requests, o \in Backend : Call(c, o, 10)
    \/ \E c \in Requests, o \in Backend : DraftCall(c, o)
    \/ \E c \in Requests : Close(c)
    \/ \E c \in Requests : Return(c)

SpecHandlers == InitHandlers /\ [][NextHandlers]_vars

\* the handlers in flight that hold connector i
Holders(i) == {c \in Requests : handlers[c] # NoHandler /\ handlers[c].conn = i}

\* C37: every connector constructed by check_connectivity,
\* check_connectivity_draft or sample_datasource is closed exactly once before
\* the operation returns or raises, and is never used after it was closed.
C37_ClosedExactlyOnce ==
    \A i \in DOMAIN conns :
        /\ conns[i].closed <= 1
        /\ ~conns[i].misused
        /\ Cardinality(Holders(i)) <= 1
        /\ \A c \in Holders(i) :
              conns[i].closed = IF handlers[c].pc = "closed" THEN 1 ELSE 0
        /\ Holders(i) = {} => conns[i].closed = 1

\* one operation of each kind has returned, its connector closed
C37_Witness ==
    /\ \A c \in Requests : handlers[c] = NoHandler
    /\ \A op \in SavedOps \cup {DraftOp} :
          \E i \in DOMAIN conns : conns[i].op = op /\ conns[i].closed = 1

\* the keys the breaker registry holds
Registered == {k \in DOMAIN breakers : breakers[k] # NoBreaker}

\* C38: after any sequence of checks and samples on saved data sources and of
\* draft checks, every key of the breaker registry is the (tenant, resource)
\* pair of a saved data source, and the registry does not grow with the number
\* of calls.
C38_RegistryOfSavedSources ==
    /\ Registered \subseteq DataSources
    /\ Cardinality(Registered) <= Cardinality(DataSources)
=============================================================================
